---- MODULE Spec2Model ----
(***************************************************************************)
(* Task planner: the task store (taskReducer), the Calendar component's    *)
(* selection / move handlers, the TaskBar resize handlers and the timers   *)
(* they schedule, as one state machine.                                    *)
(*                                                                         *)
(* A Date is an instant counted in ticks, TicksPerDay ticks to a day.  The *)
(* browser's time zone is tz ticks ahead of UTC: date-fns format() and the *)
(* Date(y, m, d) constructor work in local time, new Date('yyyy-MM-dd')    *)
(* parses its argument as UTC midnight.  Daylight saving is not modelled.  *)
(* An optional value (T | null) is the empty sequence or <<value>>.        *)
(*                                                                         *)
(* The calendar is a miniature: NumCells cells to a view, the views of     *)
(* consecutive months ViewShift days apart.  Drags are those the           *)
(* PointerSensor starts; the KeyboardSensor, the sidebar filters and the   *)
(* search box are left out, so every stored task is rendered.              *)
(*                                                                         *)
(* StoreSpec is the task store on its own, driven through its dispatch     *)
(* API by any caller, with the filters, the search box, the clock and the  *)
(* localStorage entry the useLocalStorage hook loads and saves.  A string  *)
(* that is searched or trimmed is a sequence of one-character strings.     *)
(*                                                                         *)
(* SaveSpec is the store with both places that save it: the save effect of *)
(* useLocalStorage, which writes at once, and the save effect of the       *)
(* Calendar, which writes from a setTimeout(0) callback.  There timers is  *)
(* the queue of these callbacks, oldest first, together with the           *)
(* LOAD_TASKS update the mount queues for the next render.                 *)
(*                                                                         *)
(* MonthSpec is the month that is shown, with the calendar of one year:    *)
(* there cal.currentDate is the Date itself, set from the clock at the     *)
(* mount and moved by the month buttons, and monthCells is getMonthDates   *)
(* with the date-fns functions it calls.  DateSpec draws two instants for  *)
(* the functions of dateUtils that take a start and an end.                *)
(***************************************************************************)
EXTENDS Integers, Sequences, FiniteSets, TLC

\* ---------------------------------------------------------------- bounds
TicksPerDay ==
  2
MaxTz ==
  1
NumCells ==
  2
ViewShift ==
  1
DayWidth ==
  2
MaxIds ==
  1
MaxView ==
  1
MaxPressesPerTimeout ==
  1
MaxStoreIds ==
  2
MaxPendingSaves ==
  3

\* ------------------------------------------------------------- constants
DropRadius ==
  100
DaysPerWeek ==
  7

None == <<>>
Some(x) == <<x>>
Val(o) == o[1]

Range(f) == {f[i] : i \in DOMAIN f}

Min(a, b) == IF a <= b THEN a ELSE b
Max(a, b) == IF a <= b THEN b ELSE a

VARIABLES
  tz,        \* time-zone offset of the browser, in ticks east of UTC
  state,     \* TaskState held by useReducer(taskReducer)
  cal,       \* useState cells of the Calendar component
  bar,       \* the TaskBar instance that is resizing, if any
  attr,      \* document.documentElement 'data-task-resizing' attribute
  timers,    \* pending setTimeout callbacks, with the values they captured,
             \* and store updates queued for the next render
  mouse,     \* what the primary button is held down on, or "up"; which handle
  dnd,       \* dnd-kit PointerSensor: idle, pending activation, or active
  hist,      \* inputs of the gesture in progress, the storage entry the page
             \* was mounted with (history only)
  clock,     \* the instant new Date() returns
  storage,   \* the localStorage entry 'task-planner-tasks', if any
  reported   \* what the last dispatch handed back to its caller, if anything

vars == <<tz, state, cal, bar, attr, timers, mouse, dnd, hist,
          clock, storage, reported>>

\* ------------------------------------------------------------ date maths
\* format(date, 'yyyy-MM-dd'): the local calendar day, here its day number
formatDate(t) ==
  (t + tz) \div TicksPerDay

\* new Date(y, m, d) / startOfDay: local midnight of a calendar day
LocalMidnight(d) ==
  d * TicksPerDay - tz

\* new Date('yyyy-MM-dd'): a date-only string is read as UTC midnight
ParseDate(d) ==
  d * TicksPerDay

addDays(t, n) ==
  t + n * TicksPerDay

isSameDay(a, b) ==
  formatDate(a) = formatDate(b)

RECURSIVE DaysFrom(_, _)
DaysFrom(currentDate, endDate) ==
  IF currentDate <= endDate
  THEN <<currentDate>> \o DaysFrom(currentDate + TicksPerDay, endDate)
  ELSE <<>>

getDaysBetweenFromInstants(startDate, endDate) ==
  DaysFrom(startDate, endDate)

\* the days start..end at local midnight; empty when start's day is later
getDaysBetween(startDate, endDate) ==
  [i \in 1..Max(0, formatDate(endDate) - formatDate(startDate) + 1) |->
     LocalMidnight(formatDate(startDate) + i - 1)]

\* the visible grid of the month shown: NumCells consecutive days
\* (a miniature of startOfWeek(startOfMonth) .. endOfWeek(endOfMonth))
getMonthDates(currentDate) ==
  [i \in 1..NumCells |-> [date |-> LocalMidnight(currentDate * ViewShift + i - 1)]]

\* Math.round(deltaX / dayWidth): halves round towards +infinity
RoundedDeltaDays(deltaX, dayWidth) ==
  (2 * deltaX + dayWidth) \div (2 * dayWidth)

\* ----------------------------------------------------------- task store
initialState ==
  [tasks |-> <<>>,
   filters |-> [categories |-> <<>>, timeFrame |-> None],
   draggedTask |-> None,
   isCreating |-> FALSE,
   creationDates |-> None,
   searchQuery |-> <<>>]

taskReducer(s, action) ==
  CASE action.type = "ADD_TASK" ->
         [s EXCEPT !.tasks = Append(@, action.task),
                   !.isCreating = FALSE, !.creationDates = None]
    [] action.type = "UPDATE_TASK" ->
         [s EXCEPT !.tasks =
            [i \in 1..Len(@) |-> IF @[i].id = action.task.id THEN action.task ELSE @[i]]]
    [] action.type = "DELETE_TASK" ->
         [s EXCEPT !.tasks = SelectSeq(@, LAMBDA t : t.id # action.taskId)]
    [] action.type = "SET_FILTERS" ->
         [s EXCEPT !.filters = [f \in DOMAIN @ |->
            IF f \in DOMAIN action.filters THEN action.filters[f] ELSE @[f]]]
    [] action.type = "SET_SEARCH_QUERY" ->
         [s EXCEPT !.searchQuery = action.query]
    [] action.type = "SET_DRAGGED_TASK" ->
         [s EXCEPT !.draggedTask = action.task]
    [] action.type = "START_CREATION" ->
         [s EXCEPT !.isCreating = TRUE,
                   !.creationDates = Some([startDate |-> action.startDate,
                                           endDate |-> action.endDate])]
    [] action.type = "CANCEL_CREATION" ->
         [s EXCEPT !.isCreating = FALSE, !.creationDates = None]
    [] action.type = "LOAD_TASKS" ->
         [s EXCEPT !.tasks = action.tasks]
    [] action.type = "RESET_STATE" -> initialState
    [] OTHER -> s

\* ------------------------------------------------------------ storage
\* The entry is a text: [text |-> "garbage"] is no JSON; [text |-> "json",
\* value |-> v] is the JSON text of v, v being [is |-> "other"] (null, a
\* number, a string, an object) or [is |-> "array", items |-> <<...>>], an
\* item [is |-> "null"] or [is |-> "object", ...] with the members of a
\* Task.  A date member is [kind |-> "iso", day, tick] (the UTC calendar day
\* and time of day of an ISO-8601 string), [kind |-> "null"], or
\* [kind |-> "absent"] when the object has no such member.

\* new Date(undefined): an Invalid Date, whose time value is NaN; here an
\* instant before every other, as NaN >= x is false
InvalidDate ==
  0 - 1000000

\* Date.prototype.toJSON: toISOString, or null for an Invalid Date
DateToJSON(t) ==
  IF t = InvalidDate THEN [kind |-> "null"]
  ELSE [kind |-> "iso", day |-> t \div TicksPerDay, tick |-> t % TicksPerDay]

DateOfJSONDayOnly(j) ==
  CASE j.kind = "iso" -> j.day * TicksPerDay
    [] j.kind = "null" -> 0
    [] j.kind = "absent" -> InvalidDate

\* new Date(member) of loadTasksFromStorage
DateOfJSON(j) ==
  CASE j.kind = "iso" -> j.day * TicksPerDay + j.tick
    [] j.kind = "null" -> 0
    [] j.kind = "absent" -> InvalidDate

\* JSON.stringify(tasks)
Stringify(tasks) ==
  [text |-> "json",
   value |-> [is |-> "array",
              items |-> [i \in 1..Len(tasks) |->
                [is |-> "object",
                 id |-> tasks[i].id,
                 title |-> tasks[i].title,
                 category |-> tasks[i].category,
                 startDate |-> DateToJSON(tasks[i].startDate),
                 endDate |-> DateToJSON(tasks[i].endDate),
                 createdAt |-> DateToJSON(tasks[i].createdAt)]]]]

\* saveTasksToStorage: the entry after localStorage.setItem
saveTasksToStorage(tasks) ==
  Some(Stringify(tasks))

\* loadTasksFromStorage: no entry gives []; JSON.parse of a text that is no
\* JSON throws, parsed.map of a value that is no array throws, and
\* task.startDate of a null item throws: the catch gives []
loadTasksFromStorage(stored) ==
  IF stored = None \/ Val(stored).text # "json"
     \/ Val(stored).value.is # "array"
     \/ \E item \in Range(Val(stored).value.items) : item.is = "null"
  THEN <<>>
  ELSE [i \in 1..Len(Val(stored).value.items) |->
         LET task == Val(stored).value.items[i]
         IN [id |-> task.id, title |-> task.title, category |-> task.category,
             startDate |-> DateOfJSON(task.startDate),
             endDate |-> DateOfJSON(task.endDate),
             createdAt |-> DateOfJSON(task.createdAt)]]

\* useLocalStorage's effects when the application mounts: the load effect
\* dispatches LOAD_TASKS for a non-empty list, and the save effect runs at
\* the mount and again when the tasks were loaded
useLocalStorageMount(stored) ==
  LET tasks == loadTasksFromStorage(stored)
      s == IF Len(tasks) > 0
           THEN taskReducer(initialState, [type |-> "LOAD_TASKS", tasks |-> tasks])
           ELSE initialState
  IN [state |-> s, storage |-> saveTasksToStorage(s.tasks)]

\* ------------------------------------------------- the rendered calendar
\* A world w is the record [state, cal, bar, attr, timers, dnd] a handler
\* reads and returns; each handler below is a function from worlds to worlds.
World ==
  [state |-> state, cal |-> cal, bar |-> bar, attr |-> attr,
   timers |-> timers, dnd |-> dnd]

\* day numbers (the droppable ids / data-day values) of the visible cells
VisibleDays(w) ==
  {formatDate(c.date) : c \in Range(getMonthDates(w.cal.currentDate))}

calendarStartDate(w) ==
  getMonthDates(w.cal.currentDate)[1].date

calendarEndDate(w) ==
  getMonthDates(w.cal.currentDate)[Len(getMonthDates(w.cal.currentDate))].date

\* String.prototype.toLowerCase, on the letters the model's strings use
ToLowerChar(c) ==
  CASE c = "A" -> "a" [] c = "C" -> "c" [] c = "D" -> "d" [] c = "I" -> "i"
    [] c = "P" -> "p" [] c = "R" -> "r" [] c = "T" -> "t" [] OTHER -> c

toLowerCase(str) ==
  [i \in 1..Len(str) |-> ToLowerChar(str[i])]

\* String.prototype.includes
includes(str, query) ==
  \E i \in 0..(Len(str) - Len(query)) : SubSeq(str, i + 1, i + Len(query)) = query

\* String.prototype.trim on a string given as a sequence of characters
RECURSIVE TrimStart(_)
TrimStart(str) ==
  IF str # <<>> /\ Head(str) = " " THEN TrimStart(Tail(str)) ELSE str

RECURSIVE TrimEnd(_)
TrimEnd(str) ==
  IF str # <<>> /\ str[Len(str)] = " " THEN TrimEnd(SubSeq(str, 1, Len(str) - 1))
  ELSE str

Trim(str) ==
  TrimEnd(TrimStart(str))

\* the characters of a TaskCategory
CategoryChars(category) ==
  CASE category = "To Do" -> <<"T", "o", " ", "D", "o">>
    [] category = "In Progress" ->
         <<"I", "n", " ", "P", "r", "o", "g", "r", "e", "s", "s">>
    [] category = "Review" -> <<"R", "e", "v", "i", "e", "w">>
    [] category = "Completed" -> <<"C", "o", "m", "p", "l", "e", "t", "e", "d">>

\* Date.prototype.getDay of a local calendar day; day 0 is a Sunday
getDay(d) ==
  d % DaysPerWeek

\* the Sunday that starts the week of the instant now, at local midnight
startOfWeek(now) ==
  LocalMidnight(formatDate(now) - getDay(formatDate(now)))

FrameDays(timeFrame) ==
  CASE timeFrame = "week" -> 7
    [] timeFrame = "twoWeeks" -> 14
    [] timeFrame = "threeWeeks" -> 21

\* endOfPeriod.setDate(startOfWeek.getDate() + n)
endOfPeriod(now, timeFrame) ==
  addDays(startOfWeek(now), FrameDays(timeFrame))

isTaskInTimeFrameByStart(taskStartDate, taskEndDate, timeFrame, now) ==
  IF timeFrame \notin {"week", "twoWeeks", "threeWeeks"} THEN TRUE
  ELSE LET cutoffDate == addDays(now, FrameDays(timeFrame))
           normalizedNow == LocalMidnight(formatDate(now))
           normalizedCutoff == LocalMidnight(formatDate(cutoffDate))
           normalizedTaskStart == LocalMidnight(formatDate(taskStartDate))
       IN normalizedTaskStart >= normalizedNow /\ normalizedTaskStart <= normalizedCutoff

\* dateUtils.isTaskInTimeFrame, now being the reading of new Date(); each
\* new Date(y, m, d) is the local midnight of the instant's local day
isTaskInTimeFrame(taskStartDate, taskEndDate, timeFrame, now) ==
  IF timeFrame \notin {"week", "twoWeeks", "threeWeeks"} THEN TRUE
  ELSE LET cutoffDate == addDays(now, FrameDays(timeFrame))
           normalizedNow == LocalMidnight(formatDate(now))
           normalizedCutoff == LocalMidnight(formatDate(cutoffDate))
           normalizedTaskStart == LocalMidnight(formatDate(taskStartDate))
           normalizedTaskEnd == LocalMidnight(formatDate(taskEndDate))
       IN \/ normalizedTaskStart >= normalizedNow /\ normalizedTaskStart <= normalizedCutoff
          \/ normalizedTaskEnd >= normalizedNow /\ normalizedTaskEnd <= normalizedCutoff
          \/ normalizedTaskStart <= normalizedNow /\ normalizedTaskEnd >= normalizedCutoff

\* the search stage of getFilteredTasks
SearchFiltered(s, tasks) ==
  IF Trim(s.searchQuery) # <<>>
  THEN SelectSeq(tasks, LAMBDA t :
         \/ includes(toLowerCase(t.title), toLowerCase(s.searchQuery))
         \/ includes(toLowerCase(CategoryChars(t.category)),
                     toLowerCase(s.searchQuery)))
  ELSE tasks

CategoryFilteredAny(s, tasks) ==
  tasks

\* the category stage
CategoryFiltered(s, tasks) ==
  IF Len(s.filters.categories) > 0
  THEN SelectSeq(tasks, LAMBDA t : t.category \in Range(s.filters.categories))
  ELSE tasks

\* the time-frame stage
TimeFrameFiltered(s, tasks) ==
  IF s.filters.timeFrame # None
  THEN SelectSeq(tasks, LAMBDA t :
         /\ t.startDate >= startOfWeek(clock)
         /\ t.startDate < endOfPeriod(clock, Val(s.filters.timeFrame)))
  ELSE tasks

getFilteredTasks(s) ==
  TimeFrameFiltered(s, CategoryFiltered(s, SearchFiltered(s, s.tasks)))

dayTasksStartOnly(w, d) ==
  SelectSeq(getFilteredTasks(w.state), LAMBDA t :
    isSameDay(t.startDate, LocalMidnight(d)))

\* CalendarDay: the tasks that span the cell of day d, in list order
dayTasks(w, d) ==
  SelectSeq(getFilteredTasks(w.state), LAMBDA t :
    \E taskDay \in Range(getDaysBetween(t.startDate, t.endDate)) :
      isSameDay(taskDay, LocalMidnight(d)))

\* the flags CalendarDay gives the TaskBar of task t in the cell of day d
isFirstDay(t, d) ==
  isSameDay(t.startDate, LocalMidnight(d))

isLastDay(t, d) ==
  isSameDay(t.endDate, LocalMidnight(d))

\* one TaskBar instance per visible cell and task spanning it: <<day, id>>
Bars(w) ==
  {<<d, id>> \in VisibleDays(w) \X (1..MaxIds) :
     \E t \in Range(dayTasks(w, d)) : t.id = id}

TaskOf(w, id) ==
  CHOOSE t \in Range(w.state.tasks) : t.id = id

HasTask(w, id) ==
  \E t \in Range(w.state.tasks) : t.id = id

\* CalendarDay's local isDraggingTask: the effect of the cell's last TaskBar
\* sets it on every render (dnd-kit isDragging of that task); a cell without
\* task bars keeps the value synchronised from the Calendar's isDragging
isDraggingTask(w, d) ==
  IF dayTasks(w, d) = <<>> THEN w.cal.isDragging
  ELSE w.dnd.phase = "active"
       /\ w.dnd.task = dayTasks(w, d)[Len(dayTasks(w, d))].id

\* What React does after a handler ran and the tree re-rendered: TaskBar
\* instances whose cell no longer shows the task unmount (their resize state
\* and document listeners go, and the unmount cleanup removes the attribute
\* when it names their task); and the drag-tracking effect's else branch
\* clears the drop target and its timeout while the Calendar is not dragging.
Render(old, new) ==
  LET unmounted == Bars(old) \ Bars(new)
      bar1 == IF new.bar # None
                 /\ <<Val(new.bar).cell, Val(new.bar).taskId>> \notin Bars(new)
              THEN None ELSE new.bar
      attr1 == IF new.attr # None /\ \E b \in unmounted : b[2] = Val(new.attr)
               THEN None ELSE new.attr
  IN [new EXCEPT
        !.bar = bar1,
        !.attr = attr1,
        !.cal.currentDropTarget = IF new.cal.isDragging THEN @ ELSE None,
        !.timers = IF new.cal.isDragging THEN @
                   ELSE {t \in @ : t.kind # "dropTargetTimeout"}]

\* --------------------------------------------------- selection handlers
handleSelectionStart(w, date) ==
  IF w.cal.isDragging \/ w.state.draggedTask # None THEN w
  ELSE [w EXCEPT !.attr = None,
                 !.cal.isSelecting = TRUE,
                 !.cal.selectionStart = Some(date),
                 !.cal.selectionEnd = Some(date)]

handleSelectionUpdate(w, date) ==
  IF w.cal.isSelecting /\ ~w.cal.isDragging /\ w.state.draggedTask = None
  THEN [w EXCEPT !.cal.selectionEnd = Some(date)]
  ELSE w

\* CalendarDay.handleMouseDown, primary button
handleMouseDown(w, d) ==
  IF w.cal.isDragging \/ isDraggingTask(w, d) THEN w
  ELSE handleSelectionStart(w, LocalMidnight(d))

\* CalendarDay.handleMouseEnter
handleMouseEnter(w, d) ==
  IF w.cal.isSelecting /\ ~w.cal.isDragging /\ ~isDraggingTask(w, d)
  THEN handleSelectionUpdate(w, LocalMidnight(d))
  ELSE w

\* The document mouseup listener, attached while isSelecting: it reads the
\* attribute now and schedules the 50 ms callback, which sees the values of
\* the render that attached the listener.
handleGlobalMouseUp(w) ==
  LET show == /\ w.cal.isSelecting
              /\ w.cal.selectionStart # None /\ w.cal.selectionEnd # None
              /\ ~(w.cal.isDragging \/ w.state.draggedTask # None)
              /\ w.attr = None
              /\ ~w.cal.justFinishedDrag
      a == Val(w.cal.selectionStart)
      b == Val(w.cal.selectionEnd)
  IN [w EXCEPT !.timers = @ \cup
        {[kind |-> "selectionEnd", presses |-> 0, show |-> show,
          dates |-> IF show THEN Some([startDate |-> IF a <= b THEN a ELSE b,
                                       endDate |-> IF a <= b THEN b ELSE a])
                    ELSE None]}]

\* the 50 ms callback of handleGlobalMouseUp
selectionEndTimeout(w, t) ==
  [w EXCEPT !.timers = @ \ {t},
            !.cal.modalDates = IF t.show THEN t.dates ELSE @,
            !.cal.showModal = IF t.show THEN TRUE ELSE @,
            !.cal.isSelecting = FALSE,
            !.cal.selectionStart = None,
            !.cal.selectionEnd = None]

\* ------------------------------------------------------ resize handlers
\* TaskBar.handleResizeStart of the instance in the cell of day d
handleResizeStart(w, d, id, direction, clientX) ==
  [w EXCEPT
     !.bar = Some([taskId |-> id, cell |-> d,
                   resizeDirection |-> direction,
                   resizeStartX |-> clientX,
                   resizeStartDates |-> [startDate |-> TaskOf(w, id).startDate,
                                         endDate |-> TaskOf(w, id).endDate]]),
     !.attr = Some(id)]

handleTaskResizeRebuilt(w, taskId, newStartDate, newEndDate) ==
  IF HasTask(w, taskId)
  THEN [w EXCEPT !.state = taskReducer(@,
          [type |-> "UPDATE_TASK",
           task |-> [TaskOf(w, taskId) EXCEPT !.startDate = newStartDate,
                                              !.endDate = newEndDate,
                                              !.createdAt = newStartDate]])]
  ELSE w

\* Calendar.handleTaskResize
handleTaskResize(w, taskId, newStartDate, newEndDate) ==
  IF HasTask(w, taskId)
  THEN [w EXCEPT !.state = taskReducer(@,
          [type |-> "UPDATE_TASK",
           task |-> [TaskOf(w, taskId) EXCEPT !.startDate = newStartDate,
                                              !.endDate = newEndDate]])]
  ELSE w

\* maxDate.setMonth(maxDate.getMonth() + 2): two view shifts ahead
TwoMonthsAhead(t) ==
  addDays(t, 2 * ViewShift)

ResizedStartUnclamped(w, b, roundedDeltaDays) ==
  addDays(b.resizeStartDates.startDate, roundedDeltaDays)

\* the left-handle branch of handleResizeMove
ResizedStart(w, b, roundedDeltaDays) ==
  LET newEndDate == b.resizeStartDates.endDate
      moved == addDays(b.resizeStartDates.startDate, roundedDeltaDays)
      capped == IF moved > newEndDate THEN newEndDate ELSE moved
      minDate == calendarStartDate(w)
  IN IF capped < minDate THEN minDate ELSE capped

ResizedEndUnclamped(w, b, roundedDeltaDays) ==
  addDays(b.resizeStartDates.endDate, roundedDeltaDays)

ResizedEndWithoutMaximum(w, b, roundedDeltaDays) ==
  LET newStartDate == b.resizeStartDates.startDate
      moved == addDays(b.resizeStartDates.endDate, roundedDeltaDays)
  IN IF moved < newStartDate THEN newStartDate ELSE moved

\* the right-handle branch of handleResizeMove
ResizedEnd(w, b, roundedDeltaDays) ==
  LET newStartDate == b.resizeStartDates.startDate
      moved == addDays(b.resizeStartDates.endDate, roundedDeltaDays)
      capped == IF moved < newStartDate THEN newStartDate ELSE moved
      maxDate == TwoMonthsAhead(calendarStartDate(w))
  IN IF capped > maxDate THEN maxDate ELSE capped

\* whether handleResizeMove gets as far as its call of onTaskResize: it
\* returns before when the instance is not resizing and when the rounded
\* delta is 0
CallsOnTaskResize(w, clientX) ==
  /\ w.bar # None
  /\ RoundedDeltaDays(clientX - Val(w.bar).resizeStartX, DayWidth) # 0

\* TaskBar.handleResizeMove, called by the document mousemove listener of
\* the resizing instance
handleResizeMove(w, clientX) ==
  IF ~CallsOnTaskResize(w, clientX) THEN w
  ELSE LET b == Val(w.bar)
           roundedDeltaDays == RoundedDeltaDays(clientX - b.resizeStartX, DayWidth)
       IN IF b.resizeDirection = "left"
          THEN handleTaskResize(w, b.taskId,
                 ResizedStart(w, b, roundedDeltaDays), b.resizeStartDates.endDate)
          ELSE handleTaskResize(w, b.taskId,
                 b.resizeStartDates.startDate, ResizedEnd(w, b, roundedDeltaDays))

handleResizeEnd(w) ==
  [w EXCEPT !.bar = None, !.attr = None]

\* -------------------------------------------------------- move handlers
Timer(kind) ==
  [kind |-> kind, presses |-> 0, show |-> FALSE, dates |-> None]

\* Calendar.handleDragStart (DndContext onDragStart)
handleDragStart(w, id) ==
  IF HasTask(w, id)
  THEN [w EXCEPT !.state = taskReducer(@,
                    [type |-> "SET_DRAGGED_TASK", task |-> Some(TaskOf(w, id))]),
                 !.cal.isDragging = TRUE]
  ELSE w

InCalendarRange(w, targetDate) ==
  targetDate >= calendarStartDate(w) /\ targetDate <= calendarEndDate(w)

\* Calendar.handleDragOver (DndContext onDragOver); over is a droppable id
handleDragOver(w, over) ==
  IF w.cal.isDragging /\ over # None /\ InCalendarRange(w, ParseDate(Val(over)))
  THEN [w EXCEPT !.cal.currentDropTarget = Some(ParseDate(Val(over)))]
  ELSE w

\* the loop of handleMouseMove over the [data-day] cells i..n in document
\* order: r = [found, target, closestTarget, closestDistance]
RECURSIVE ScanCells(_, _, _, _)
ScanCells(w, p, i, r) ==
  IF i > Len(getMonthDates(w.cal.currentDate)) \/ r.found THEN r
  ELSE LET dayId == formatDate(getMonthDates(w.cal.currentDate)[i].date)
           targetDate == ParseDate(dayId)
       IN IF ~InCalendarRange(w, targetDate) THEN ScanCells(w, p, i + 1, r)
          ELSE IF p.inside = Some(dayId)
          THEN [r EXCEPT !.found = TRUE, !.target = Some(targetDate)]
          ELSE IF r.closestTarget = None \/ p.distance[dayId] < r.closestDistance
          THEN ScanCells(w, p, i + 1,
                 [r EXCEPT !.closestTarget = Some(targetDate),
                           !.closestDistance = p.distance[dayId]])
          ELSE ScanCells(w, p, i + 1, r)

\* the document mousemove listener of the drag-tracking effect; p tells which
\* cell rectangle contains the pointer and its distance to each cell centre
handleMouseMove(w, p) ==
  IF ~w.cal.isDragging THEN w
  ELSE LET r == ScanCells(w, p, 1,
                  [found |-> FALSE, target |-> None,
                   closestTarget |-> None, closestDistance |-> 0])
           cleared == {t \in w.timers : t.kind # "dropTargetTimeout"}
       IN IF r.found
          THEN [w EXCEPT !.timers = cleared, !.cal.currentDropTarget = r.target]
          ELSE IF r.closestTarget # None /\ r.closestDistance < DropRadius
          THEN [w EXCEPT !.timers = cleared,
                         !.cal.currentDropTarget = r.closestTarget]
          ELSE [w EXCEPT !.timers = cleared \cup {Timer("dropTargetTimeout")}]

dropTargetTimeout(w, t) ==
  [w EXCEPT !.timers = @ \ {t}, !.cal.currentDropTarget = None]

ClearDragStatesPartial(w) ==
  [w EXCEPT !.cal.currentDropTarget = None]

\* the three clearing calls of handleDragEnd
ClearDragStates(w) ==
  [w EXCEPT !.cal.isDragging = FALSE,
            !.state = taskReducer(@, [type |-> "SET_DRAGGED_TASK", task |-> None]),
            !.cal.currentDropTarget = None]

\* Calendar.handleDragEnd (DndContext onDragEnd).  After the over check the
\* target is the tracked drop target or new Date(over.id), which is never
\* null, so the closest-cell fallback of lines 445-479 cannot run.
handleDragEnd(w, over) ==
  IF over = None \/ ~HasTask(w, w.dnd.task) THEN ClearDragStates(w)
  ELSE LET task == TaskOf(w, w.dnd.task)
           targetDate == IF w.cal.currentDropTarget # None
                         THEN Val(w.cal.currentDropTarget)
                         ELSE ParseDate(Val(over))
           taskDuration == Len(getDaysBetween(task.startDate, task.endDate))
           updatedTask == [task EXCEPT
                             !.startDate = targetDate,
                             !.endDate = targetDate + (taskDuration - 1) * TicksPerDay]
       IN IF ~InCalendarRange(w, targetDate) THEN ClearDragStates(w)
          ELSE LET u == [w EXCEPT !.state = taskReducer(@,
                           [type |-> "UPDATE_TASK", task |-> updatedTask])]
               IN [ClearDragStates(u) EXCEPT
                     !.cal.justFinishedDrag = TRUE,
                     !.timers = @ \cup {Timer("dragEndClear")}]

\* the setTimeout(0) callback of handleDragEnd
dragEndClearTimeout(w, t) ==
  [w EXCEPT !.timers = (@ \ {t}) \cup {Timer("justFinishedDragClear")},
            !.cal.isDragging = FALSE,
            !.state = taskReducer(@, [type |-> "SET_DRAGGED_TASK", task |-> None])]

\* the nested setTimeout(100) callback
justFinishedDragClearTimeout(w, t) ==
  [w EXCEPT !.timers = @ \ {t}, !.cal.justFinishedDrag = FALSE]

resetDraggingState(w) ==
  [w EXCEPT !.cal.isDragging = FALSE,
            !.state = taskReducer(@, [type |-> "SET_DRAGGED_TASK", task |-> None])]

\* onClick of the Calendar's root element
containerClick(w) ==
  IF w.cal.isDragging THEN resetDraggingState(w) ELSE w

\* ------------------------------------------------------- modal handlers
\* Calendar.handleModalClose; isCreatingTask is never set, so the
\* auto-navigation branch cannot run
handleModalClose(w) ==
  [w EXCEPT !.cal.showModal = FALSE,
            !.cal.showEditModal = FALSE,
            !.cal.editingTask = None,
            !.cal.modalDates = None]

\* Calendar.handleTaskEdit
handleTaskEdit(w, task) ==
  [w EXCEPT !.cal.editingTask = Some(task), !.cal.showEditModal = TRUE]

TaskModalSubmitUnchecked(w, title, category, id, now) ==
  handleModalClose([w EXCEPT !.state = taskReducer(@,
    [type |-> "ADD_TASK",
     task |-> [id |-> id,
               title |-> title,
               startDate |-> Val(w.cal.modalDates).startDate,
               endDate |-> Val(w.cal.modalDates).endDate,
               category |-> category,
               createdAt |-> now]])])

TaskModalSubmitDefaultCategory(w, title, category, id, now) ==
  IF Trim(title) = <<>> THEN w
  ELSE handleModalClose([w EXCEPT !.state = taskReducer(@,
         [type |-> "ADD_TASK",
          task |-> [id |-> id,
                    title |-> Trim(title),
                    startDate |-> Val(w.cal.modalDates).startDate,
                    endDate |-> Val(w.cal.modalDates).endDate,
                    category |-> "To Do",
                    createdAt |-> now]])])

\* TaskModal.handleSubmit, with the generated id and the clock reading
TaskModalSubmit(w, title, category, id, now) ==
  IF Trim(title) = <<>> THEN w
  ELSE handleModalClose([w EXCEPT !.state = taskReducer(@,
         [type |-> "ADD_TASK",
          task |-> [id |-> id,
                    title |-> Trim(title),
                    startDate |-> Val(w.cal.modalDates).startDate,
                    endDate |-> Val(w.cal.modalDates).endDate,
                    category |-> category,
                    createdAt |-> now]])])

\* TaskEditModal.handleSubmit
TaskEditModalSubmit(w, title, category) ==
  IF Trim(title) = <<>> THEN w
  ELSE handleModalClose([w EXCEPT !.state = taskReducer(@,
         [type |-> "UPDATE_TASK",
          task |-> [Val(w.cal.editingTask) EXCEPT !.title = Trim(title),
                                                  !.category = category]])])

\* TaskEditModal.handleDelete, the confirm dialog accepted
handleDelete(w) ==
  handleModalClose([w EXCEPT !.state = taskReducer(@,
    [type |-> "DELETE_TASK", taskId |-> Val(w.cal.editingTask).id])])

\* TaskBar.handleTaskClick of the instance <<d, id>>; when it returns early
\* the click bubbles to the Calendar's root element
handleTaskClick(w, d, id) ==
  IF (w.dnd.phase = "active" /\ w.dnd.task = id)
     \/ (w.bar # None /\ Val(w.bar).cell = d /\ Val(w.bar).taskId = id)
  THEN containerClick(w)
  ELSE handleTaskEdit(w, TaskOf(w, id))

\* a handle's onMouseDown without its stopPropagation: the cell's handler runs
ResizeHandleMouseDownBubbles(w, d, id, direction, clientX) ==
  handleMouseDown(handleResizeStart(w, d, id, direction, clientX), d)

\* onMouseDown of a resize handle of instance <<d, id>>: it stops the event,
\* and the handle is no descendant of the draggable element
ResizeHandleMouseDown(w, d, id, direction, clientX) ==
  handleResizeStart(w, d, id, direction, clientX)

\* TaskBar.handleDragStart (onMouseDown of the task body) of instance <<d, id>>
\* followed, unless it stops the event, by the cell's handleMouseDown: the
\* PointerSensor supplies no onMouseDown listener, so the handler only logs
\* and the event bubbles
TaskBarMouseDown(w, d, id) ==
  LET w1 == IF w.attr # None /\ Val(w.attr) # id THEN [w EXCEPT !.attr = None]
            ELSE w
  IN IF w1.bar # None /\ Val(w1.bar).cell = d /\ Val(w1.bar).taskId = id
     THEN w1
     ELSE handleMouseDown(w1, d)

\* --------------------------------------------------------------- inputs
\* offsets from MaxTz ticks west of UTC to UTC
TimeZones == (0 - MaxTz)..0

Categories == {"To Do", "In Progress", "Review", "Completed"}

\* what the forms are fed: a title, a blank title; one of the categories
TitleInputs == {<<" ", "a", " ">>, <<" ">>}
CategoryInputs == {"Review"}

\* readings of the clock for createdAt
ClockInputs == {0}

\* horizontal pointer positions, cell i of the grid spanning
\* (i-1)*DayWidth .. i*DayWidth - 1, and one cell width to either side
PointerXs == (0 - DayWidth)..((NumCells + 1) * DayWidth - 1)

\* distances from the pointer to a cell centre
Distances == {DropRadius - 1, DropRadius}

\* the latest instant a task may end in the model: moves and resizes that
\* would pass it are not taken
DateCap == ParseDate((MaxView + 2) * ViewShift + 1) + MaxTz

DatesInBounds(w) ==
  \A t \in Range(w.state.tasks) : t.endDate <= DateCap

\* position of day d in the grid, from 0
CellIndex(w, d) ==
  d - formatDate(calendarStartDate(w))

\* clientX of a pointer-down on a resize handle of the bar in cell d
HandleX(w, d, direction) ==
  IF direction = "left" THEN CellIndex(w, d) * DayWidth
  ELSE (CellIndex(w, d) + 1) * DayWidth - 1

\* ---------------------------------------------------------------- state
\* the useState cells of the Calendar, the month shown being month 0
CalInit ==
  [currentDate |-> 0,
   showModal |-> FALSE, showEditModal |-> FALSE,
   editingTask |-> None, modalDates |-> None,
   isSelecting |-> FALSE,
   selectionStart |-> None, selectionEnd |-> None,
   isDragging |-> FALSE,
   currentDropTarget |-> None,
   justFinishedDrag |-> FALSE]

Init ==
  /\ tz \in TimeZones
  /\ state = initialState
  /\ cal = CalInit
  /\ bar = None
  /\ attr = None
  /\ timers = {}
  /\ mouse = [on |-> "up", day |-> 0, task |-> 0, direction |-> ""]
  /\ dnd = [phase |-> "idle", task |-> 0]
  /\ hist = [nextId |-> 1, tasksAtDown |-> <<>>, lastClientX |-> None,
             up |-> None, atMount |-> None]
  /\ clock \in ClockInputs
  /\ storage = saveTasksToStorage(<<>>)
  /\ reported = None

\* How many presses of the button a pending callback can see before it
\* runs: none in the 50 ms of handleGlobalMouseUp's, MaxPressesPerTimeout in
\* the 100 ms of the others.
PressLimit(t) ==
  IF t.kind = "selectionEnd" THEN 0 ELSE MaxPressesPerTimeout

\* a setTimeout(0) callback runs before the next input event is handled
\* and before the later callbacks
Ready ==
  \A t \in timers : t.kind # "dragEndClear"

CanPress ==
  Ready /\ mouse.on = "up" /\ \A t \in timers : t.presses < PressLimit(t)

\* the world at a press: the pending callbacks have seen one more
Pressed ==
  [World EXCEPT !.timers = {[t EXCEPT !.presses = @ + 1] : t \in @}]

\* the world after a handler ran, re-rendered, and the entry after the
\* save effect of useLocalStorage, which runs when the tasks changed
Becomes(w) ==
  LET r == Render(World, w)
  IN /\ state' = r.state
     /\ cal' = r.cal
     /\ bar' = r.bar
     /\ attr' = r.attr
     /\ timers' = r.timers
     /\ dnd' = r.dnd
     /\ storage' = IF r.state.tasks = state.tasks THEN storage
                   ELSE saveTasksToStorage(r.state.tasks)

\* a modal's overlay covers the page
CreateModalShown == cal.showModal /\ cal.modalDates # None
EditModalShown == cal.showEditModal /\ cal.editingTask # None
ModalOpen == CreateModalShown \/ EditModalShown

\* the document mouseup listener of the selection effect, when attached
GlobalMouseUp(w) ==
  IF w.cal.isSelecting THEN handleGlobalMouseUp(w) ELSE w

\* the release inputs are kept for one step only
HistStep ==
  hist' = [hist EXCEPT !.up = None]

GestureStart ==
  [hist EXCEPT !.tasksAtDown = state.tasks, !.lastClientX = None, !.up = None]

\* -------------------------------------------------------------- actions
\* primary button pressed on the empty area of a visible cell
MouseDownOnCell(d) ==
  /\ CanPress /\ ~ModalOpen
  /\ d \in VisibleDays(World)
  /\ Becomes(handleMouseDown(Pressed, d))
  /\ mouse' = [on |-> "cell", day |-> d, task |-> 0, direction |-> ""]
  /\ hist' = GestureStart
  /\ UNCHANGED <<tz, clock, reported>>

\* primary button pressed on the body of the task bar <<d, id>>: the
\* PointerSensor arms, TaskBar.handleDragStart runs and the event bubbles
MouseDownOnTaskBody(d, id) ==
  /\ CanPress /\ ~ModalOpen
  /\ <<d, id>> \in Bars(World)
  /\ Becomes(TaskBarMouseDown([Pressed EXCEPT !.dnd = [phase |-> "pending", task |-> id]],
                              d, id))
  /\ mouse' = [on |-> "task", day |-> d, task |-> id, direction |-> ""]
  /\ hist' = GestureStart
  /\ UNCHANGED <<tz, clock, reported>>

\* primary button pressed on a resize handle of the task bar <<d, id>>
MouseDownOnHandle(d, id, direction) ==
  /\ CanPress /\ ~ModalOpen
  /\ <<d, id>> \in Bars(World)
  /\ Len(getDaysBetween(TaskOf(World, id).startDate, TaskOf(World, id).endDate)) >= 1
  /\ direction = "left" => isSameDay(TaskOf(World, id).startDate, LocalMidnight(d))
  /\ direction = "right" => isSameDay(TaskOf(World, id).endDate, LocalMidnight(d))
  /\ Becomes(ResizeHandleMouseDown(Pressed, d, id, direction, HandleX(World, d, direction)))
  /\ mouse' = [on |-> "handle", day |-> d, task |-> id, direction |-> direction]
  /\ hist' = [GestureStart EXCEPT !.lastClientX = Some(HandleX(World, d, direction))]
  /\ UNCHANGED <<tz, clock, reported>>

\* the pointer enters the cell of day d
CellMouseEnter(d) ==
  /\ Ready /\ ~ModalOpen
  /\ d \in VisibleDays(World)
  /\ Becomes(handleMouseEnter(World, d))
  /\ HistStep /\ UNCHANGED <<tz, mouse, clock, reported>>

\* the pointer moves to clientX after a handle was pressed; the resizing
\* instance's listener handles it while that instance is mounted
ResizePointerMove(clientX) ==
  /\ Ready /\ mouse.on = "handle"
  /\ DatesInBounds(handleResizeMove(World, clientX))
  /\ Becomes(handleResizeMove(World, clientX))
  /\ hist' = [hist EXCEPT !.lastClientX = Some(clientX), !.up = None]
  /\ UNCHANGED <<tz, mouse, clock, reported>>

\* the pointer has travelled the activation distance: dnd-kit starts the drag
DragActivate ==
  /\ Ready /\ mouse.on = "task" /\ dnd.phase = "pending"
  /\ Becomes(handleDragStart([World EXCEPT !.dnd.phase = "active"], dnd.task))
  /\ HistStep /\ UNCHANGED <<tz, mouse, clock, reported>>

\* a mousemove reaches the drag-tracking listener (a resizing TaskBar's
\* capturing listener would stop it)
DragTrackMove(p) ==
  /\ Ready /\ cal.isDragging /\ bar = None
  /\ Becomes(handleMouseMove(World, p))
  /\ HistStep /\ UNCHANGED <<tz, mouse, clock, reported>>

\* dnd-kit reports the droppable the dragged bar is over
DragOver(over) ==
  /\ Ready /\ dnd.phase = "active"
  /\ Becomes(handleDragOver(World, over))
  /\ HistStep /\ UNCHANGED <<tz, mouse, clock, reported>>

\* the drag is cancelled (Escape): the DndContext has no onDragCancel
DragCancel ==
  /\ Ready /\ dnd.phase = "active"
  /\ Becomes([World EXCEPT !.dnd = [phase |-> "idle", task |-> 0]])
  /\ HistStep /\ UNCHANGED <<tz, mouse, clock, reported>>

MouseIsUp == [on |-> "up", day |-> 0, task |-> 0, direction |-> ""]
DndIdle == [phase |-> "idle", task |-> 0]

\* the click that follows a press and release: on the pressed task bar when
\* the release is on it, else on the common ancestor inside the Calendar's
\* root element, unless the release is outside it (over = None)
ClickAfter(w, over, sameTarget) ==
  IF sameTarget /\ <<mouse.day, mouse.task>> \in Bars(w)
  THEN handleTaskClick(w, mouse.day, mouse.task)
  ELSE IF over # None THEN containerClick(w) ELSE w

\* the world after the handlers of a release of the primary button; over is
\* the droppable dnd-kit reports (None: released outside every cell)
AfterMouseUp(over, sameTarget) ==
  LET idle == [World EXCEPT !.dnd = DndIdle]
  IN CASE mouse.on = "handle" ->
            \* the resizing instance's capturing listener stops the event
            IF bar # None
            THEN ClickAfter(Render(World, handleResizeEnd(World)), over, FALSE)
            ELSE ClickAfter(GlobalMouseUp(World), over, FALSE)
       [] mouse.on = "task" /\ dnd.phase = "active" ->
            \* pointerup: onDragEnd; then mouseup; dnd-kit swallows the click
            GlobalMouseUp(Render(World,
              [handleDragEnd(World, over) EXCEPT !.dnd = DndIdle]))
       [] mouse.on = "task" /\ dnd.phase # "active" ->
            ClickAfter(GlobalMouseUp(idle), over, sameTarget)
       [] OTHER ->
            ClickAfter(GlobalMouseUp(idle), over, FALSE)

MouseUp(over, sameTarget) ==
  /\ Ready /\ mouse.on # "up"
  /\ sameTarget => mouse.on = "task" /\ dnd.phase # "active" /\ over = Some(mouse.day)
  /\ DatesInBounds(AfterMouseUp(over, sameTarget))
  /\ Becomes(AfterMouseUp(over, sameTarget))
  /\ mouse' = MouseIsUp
  /\ hist' = [hist EXCEPT !.tasksAtDown = <<>>, !.lastClientX = None,
                          !.up = Some([outside |-> over = None,
                                       dragging |-> dnd.phase = "active",
                                       over |-> IF dnd.phase = "active" THEN over
                                                ELSE None])]
  /\ UNCHANGED <<tz, clock, reported>>

\* ------------------------------------------------------------- timers
SelectionEndTimeout ==
  \E t \in timers :
    /\ Ready /\ t.kind = "selectionEnd"
    /\ Becomes(selectionEndTimeout(World, t))
    /\ HistStep /\ UNCHANGED <<tz, mouse, clock, reported>>

DropTargetTimeout ==
  \E t \in timers :
    /\ Ready /\ t.kind = "dropTargetTimeout"
    /\ Becomes(dropTargetTimeout(World, t))
    /\ HistStep /\ UNCHANGED <<tz, mouse, clock, reported>>

DragEndClearTimeout ==
  \E t \in timers :
    /\ t.kind = "dragEndClear"
    /\ Becomes(dragEndClearTimeout(World, t))
    /\ HistStep /\ UNCHANGED <<tz, mouse, clock, reported>>

JustFinishedDragClearTimeout ==
  \E t \in timers :
    /\ Ready /\ t.kind = "justFinishedDragClear"
    /\ Becomes(justFinishedDragClearTimeout(World, t))
    /\ HistStep /\ UNCHANGED <<tz, mouse, clock, reported>>

\* -------------------------------------------------------------- forms
\* a click inside an open modal or on the header: the document mouseup
\* listener first, then the element's handler, then the root's onClick
CreateSubmit(title, category, now) ==
  /\ CanPress /\ CreateModalShown /\ ~EditModalShown
  /\ hist.nextId <= MaxIds
  /\ Becomes(containerClick(
       TaskModalSubmit(GlobalMouseUp(Pressed), title, category, hist.nextId, now)))
  /\ hist' = [hist EXCEPT !.nextId = IF Trim(title) = <<>> THEN @ ELSE @ + 1,
                          !.up = None]
  /\ UNCHANGED <<tz, mouse, clock, reported>>

EditSubmit(title, category) ==
  /\ CanPress /\ EditModalShown
  /\ Becomes(containerClick(
       TaskEditModalSubmit(GlobalMouseUp(Pressed), title, category)))
  /\ HistStep /\ UNCHANGED <<tz, mouse, clock, reported>>

EditDelete ==
  /\ CanPress /\ EditModalShown
  /\ Becomes(containerClick(handleDelete(GlobalMouseUp(Pressed))))
  /\ HistStep /\ UNCHANGED <<tz, mouse, clock, reported>>

\* the close or cancel button of the modal on top
ModalClose ==
  /\ CanPress /\ ModalOpen
  /\ Becomes(containerClick(handleModalClose(GlobalMouseUp(Pressed))))
  /\ HistStep /\ UNCHANGED <<tz, mouse, clock, reported>>

\* Calendar.navigateMonth: subMonths / addMonths by one
navigateMonth(w, direction) ==
  [w EXCEPT !.cal.currentDate = IF direction = "prev" THEN @ - 1 ELSE @ + 1]

NavigateMonth(direction) ==
  /\ CanPress /\ ~ModalOpen
  /\ navigateMonth(World, direction).cal.currentDate \in 0..MaxView
  /\ Becomes(containerClick(navigateMonth(GlobalMouseUp(Pressed), direction)))
  /\ HistStep /\ UNCHANGED <<tz, mouse, clock, reported>>

\* pointer positions for the drag-tracking listener: inside the rectangle of
\* a cell, or inside none at some distance from each cell centre
PointerInputs ==
  [inside : {Some(d) : d \in VisibleDays(World)},
   distance : {[d \in VisibleDays(World) |-> 0]}]
  \cup [inside : {None}, distance : [VisibleDays(World) -> Distances]]

Next ==
  \/ \E d \in VisibleDays(World) : MouseDownOnCell(d)
  \/ \E d \in VisibleDays(World), id \in 1..MaxIds : MouseDownOnTaskBody(d, id)
  \/ \E d \in VisibleDays(World), id \in 1..MaxIds, direction \in {"left", "right"} :
       MouseDownOnHandle(d, id, direction)
  \/ \E d \in VisibleDays(World) : CellMouseEnter(d)
  \/ \E clientX \in PointerXs : ResizePointerMove(clientX)
  \/ DragActivate
  \/ \E p \in PointerInputs : DragTrackMove(p)
  \/ \E d \in VisibleDays(World) : DragOver(Some(d))
  \/ DragCancel
  \/ \E over \in {None} \cup {Some(d) : d \in VisibleDays(World)},
        sameTarget \in BOOLEAN : MouseUp(over, sameTarget)
  \/ SelectionEndTimeout
  \/ DropTargetTimeout
  \/ DragEndClearTimeout
  \/ JustFinishedDragClearTimeout
  \/ \E title \in TitleInputs, category \in CategoryInputs :
       CreateSubmit(title, category, clock)
  \/ \E title \in TitleInputs, category \in CategoryInputs : EditSubmit(title, category)
  \/ EditDelete
  \/ ModalClose
  \/ \E direction \in {"prev", "next"} : NavigateMonth(direction)

Spec == Init /\ [][Next]_vars

\* ------------------------------------------------------- the store alone
dispatchPrepending(s, action) ==
  [state |-> IF action.type = "ADD_TASK"
             THEN [taskReducer(s, action) EXCEPT !.tasks = <<action.task>> \o s.tasks]
             ELSE taskReducer(s, action),
   returned |-> None]

dispatchReplacingFilters(s, action) ==
  [state |-> IF action.type = "SET_FILTERS"
             THEN [s EXCEPT !.filters = [f \in DOMAIN @ |->
                     IF f \in DOMAIN action.filters THEN action.filters[f]
                     ELSE initialState.filters[f]]]
             ELSE taskReducer(s, action),
   returned |-> None]

\* React's dispatch: the reducer's result becomes the state, and the call
\* returns undefined to its caller; taskReducer throws nothing
dispatch(s, action) ==
  [state |-> taskReducer(s, action), returned |-> None]

\* Sidebar.handleCategoryChange, checked being the box's new value
handleCategoryChange(s, category) ==
  LET checked == category \notin Range(s.filters.categories)
      newCategories == IF checked THEN Append(s.filters.categories, category)
                       ELSE SelectSeq(s.filters.categories, LAMBDA c : c # category)
  IN dispatch(s, [type |-> "SET_FILTERS",
                  filters |-> [categories |-> newCategories]])

\* Sidebar.handleTimeFrameChange
handleTimeFrameChange(s, timeFrame) ==
  dispatch(s, [type |-> "SET_FILTERS",
               filters |-> [timeFrame |-> IF s.filters.timeFrame = Some(timeFrame)
                                          THEN None ELSE Some(timeFrame)]])

handleSearchChangeKeepingMatches(s, query) ==
  [state |-> [s EXCEPT !.searchQuery = query,
                       !.tasks = SearchFiltered([s EXCEPT !.searchQuery = query], @)],
   returned |-> None]

\* SearchBar.handleSearchChange
handleSearchChange(s, query) ==
  dispatch(s, [type |-> "SET_SEARCH_QUERY", query |-> query])

\* a click on the radio input of a time frame: checked is
\* state.filters.timeFrame === key, and React calls onChange for a click
\* that changes the input's checked value only, so a click on the checked
\* radio calls nothing
timeFrameRadioClick(s, timeFrame) ==
  IF s.filters.timeFrame = Some(timeFrame)
  THEN [state |-> s, returned |-> None]
  ELSE handleTimeFrameChange(s, timeFrame)

\* onClick of the Clear time filter button
clearTimeFilter(s) ==
  dispatch(s, [type |-> "SET_FILTERS", filters |-> [timeFrame |-> None]])

\* what the store's callers pass: a title, a category and the first and
\* last day of a selection; the last shape has its days inverted
TaskShapes ==
  {<<(<<"A">>), "Review", 1, 1>>,
   <<(<<"b">>), "Review", 0 - 1, 4>>,
   <<(<<"b">>), "To Do", 4, 8>>,
   <<(<<"A">>), "To Do", 8, 8>>}

InvertedShapes ==
  {<<(<<"b">>), "To Do", 4, 1>>}

MakeTask(id, shape) ==
  [id |-> id, title |-> shape[1], category |-> shape[2],
   startDate |-> LocalMidnight(shape[3]), endDate |-> LocalMidnight(shape[4]),
   createdAt |-> clock]

QueryInputs == {<<>>, <<" ">>, <<"a">>, <<"R", "e">>}

CategoryFilterInputs == {"Review"}

TimeFrames == {"week", "twoWeeks", "threeWeeks"}

\* the instant of the clock: the second tick of UTC day 3, a Wednesday
StoreClockInputs == {ParseDate(3) + 1}

\* entries that were not written by saveTasksToStorage: none, a text that is
\* no JSON, the JSON of a value that is no array, of an array holding null,
\* and of an array holding an object without the dates of a task (its id,
\* 0, is none that generateTaskId gives)
ForeignEntries ==
  {None,
   Some([text |-> "garbage"]),
   Some([text |-> "json", value |-> [is |-> "other"]]),
   Some([text |-> "json", value |-> [is |-> "array", items |-> <<[is |-> "null"]>>]]),
   Some([text |-> "json", value |-> [is |-> "array", items |->
     <<[is |-> "object", id |-> 0, title |-> <<"A">>, category |-> "Review",
        startDate |-> [kind |-> "absent"], endDate |-> [kind |-> "absent"],
        createdAt |-> [kind |-> "absent"]]>>]])}

StoreInit ==
  /\ tz \in TimeZones
  /\ clock \in StoreClockInputs
  /\ state = initialState
  /\ storage = saveTasksToStorage(<<>>)
  /\ reported = None
  /\ cal = CalInit
  /\ bar = None
  /\ attr = None
  /\ timers = {}
  /\ mouse = MouseIsUp
  /\ dnd = DndIdle
  /\ hist = [nextId |-> 1, tasksAtDown |-> <<>>, lastClientX |-> None,
             up |-> None, atMount |-> None]

\* the calendar takes no part
StoreFrame ==
  UNCHANGED <<tz, clock, cal, bar, attr, timers, mouse, dnd>>

DispatchedSavesStale(r, saves) ==
  /\ state' = r.state
  /\ reported' = r.returned
  /\ storage' = IF saves THEN saveTasksToStorage(state.tasks) ELSE storage

\* the state after a dispatch; the save effect runs when the reducer
\* returned a new tasks array
Dispatched(r, saves) ==
  /\ state' = r.state
  /\ reported' = r.returned
  /\ storage' = IF saves THEN saveTasksToStorage(r.state.tasks) ELSE storage

\* a task is added under a generated id
StoreAdd(task) ==
  /\ hist.nextId <= MaxStoreIds
  /\ task.id = hist.nextId
  /\ Dispatched(dispatch(state, [type |-> "ADD_TASK", task |-> task]), TRUE)
  /\ hist' = [hist EXCEPT !.nextId = @ + 1]
  /\ StoreFrame

StoreUpdate(task) ==
  /\ Dispatched(dispatch(state, [type |-> "UPDATE_TASK", task |-> task]), TRUE)
  /\ UNCHANGED hist /\ StoreFrame

StoreDelete(taskId) ==
  /\ Dispatched(dispatch(state, [type |-> "DELETE_TASK", taskId |-> taskId]), TRUE)
  /\ UNCHANGED hist /\ StoreFrame

CategoryToggle(category) ==
  /\ Dispatched(handleCategoryChange(state, category), FALSE)
  /\ UNCHANGED hist /\ StoreFrame

\* a click on the radio button of a time frame
TimeFrameChange(timeFrame) ==
  /\ Dispatched(timeFrameRadioClick(state, timeFrame), FALSE)
  /\ UNCHANGED hist /\ StoreFrame

\* the Clear time filter button, rendered while a time frame is chosen
TimeFrameClear ==
  /\ state.filters.timeFrame # None
  /\ Dispatched(clearTimeFilter(state), FALSE)
  /\ UNCHANGED hist /\ StoreFrame

SearchChange(query) ==
  /\ Dispatched(handleSearchChange(state, query), FALSE)
  /\ UNCHANGED hist /\ StoreFrame

\* the page is loaded again: a new store, and useLocalStorage mounts
Reload ==
  /\ state' = useLocalStorageMount(storage).state
  /\ storage' = useLocalStorageMount(storage).storage
  /\ reported' = None
  /\ UNCHANGED hist /\ StoreFrame

\* the page is loaded after the entry was replaced from outside
StartOver(entry) ==
  /\ state' = useLocalStorageMount(entry).state
  /\ storage' = useLocalStorageMount(entry).storage
  /\ reported' = None
  /\ UNCHANGED hist /\ StoreFrame

StoreNext ==
  \/ \E shape \in TaskShapes : StoreAdd(MakeTask(hist.nextId, shape))
  \/ \E id \in 1..(MaxStoreIds + 1), shape \in TaskShapes \cup InvertedShapes :
       StoreUpdate(MakeTask(id, shape))
  \/ \E taskId \in 1..(MaxStoreIds + 1) : StoreDelete(taskId)
  \/ \E category \in CategoryFilterInputs : CategoryToggle(category)
  \/ \E timeFrame \in TimeFrames : TimeFrameChange(timeFrame)
  \/ TimeFrameClear
  \/ \E query \in QueryInputs : SearchChange(query)
  \/ \E entry \in ForeignEntries : StartOver(entry)
  \/ Reload

StoreSpec == StoreInit /\ [][StoreNext]_vars

\* ------------------------------------------- the store and its two savers
\* the Calendar's save effect: setTimeout(() => saveTasksToStorage(state.tasks), 0)
\* with the state.tasks of the render whose effect it is
SaveTimer(tasks) ==
  [kind |-> "save", tasks |-> tasks]

NextSaveNewest(queue) ==
  Len(queue)

\* timers of the same delay fire in the order they were set
NextSave(queue) ==
  1

\* what the store's callers pass here: a title, a category, a first and a
\* last day
SaveShapes ==
  {<<(<<"A">>), "Review", 1, 1>>, <<(<<"b">>), "To Do", 4, 8>>}

SaveInit ==
  /\ tz \in TimeZones
  /\ clock \in StoreClockInputs
  /\ state = initialState
  /\ storage = saveTasksToStorage(<<>>)
  /\ reported = None
  /\ cal = CalInit
  /\ bar = None
  /\ attr = None
  /\ timers = <<SaveTimer(<<>>)>>
  /\ mouse = MouseIsUp
  /\ dnd = DndIdle
  /\ hist = [nextId |-> 1, tasksAtDown |-> <<>>, lastClientX |-> None,
             up |-> None, atMount |-> None]

SaveFrame ==
  UNCHANGED <<tz, clock, cal, bar, attr, mouse, dnd>>

\* the render after a dispatch that returned a new tasks array: the
\* Calendar's effect sets its timer, useLocalStorage's effect saves
Rendered(r) ==
  /\ Len(timers) < MaxPendingSaves
  /\ \A i \in DOMAIN timers : timers[i].kind = "save"
  /\ state' = r.state
  /\ reported' = r.returned
  /\ timers' = Append(timers, SaveTimer(r.state.tasks))
  /\ storage' = saveTasksToStorage(r.state.tasks)

SaveAdd(task) ==
  /\ hist.nextId <= MaxStoreIds
  /\ task.id = hist.nextId
  /\ Rendered(dispatch(state, [type |-> "ADD_TASK", task |-> task]))
  /\ hist' = [hist EXCEPT !.nextId = @ + 1, !.atMount = None]
  /\ SaveFrame

SaveUpdate(task) ==
  /\ Rendered(dispatch(state, [type |-> "UPDATE_TASK", task |-> task]))
  /\ hist' = [hist EXCEPT !.atMount = None]
  /\ SaveFrame

SaveDelete(taskId) ==
  /\ Rendered(dispatch(state, [type |-> "DELETE_TASK", taskId |-> taskId]))
  /\ hist' = [hist EXCEPT !.atMount = None]
  /\ SaveFrame

\* a timer of the Calendar's save effect fires
DeferredSave ==
  /\ timers # <<>>
  /\ timers[NextSave(timers)].kind = "save"
  /\ storage' = saveTasksToStorage(timers[NextSave(timers)].tasks)
  /\ timers' = [i \in 1..(Len(timers) - 1) |->
                  IF i < NextSave(timers) THEN timers[i] ELSE timers[i + 1]]
  /\ UNCHANGED <<state, reported, hist>> /\ SaveFrame

\* the store update the load effect of useLocalStorage queues at the mount:
\* dispatch({ type: 'LOAD_TASKS', tasks }), applied by the next render
LoadTasksUpdate(tasks) ==
  [kind |-> "LOAD_TASKS", tasks |-> tasks]

mountEffectsSaveBeforeLoad(stored) ==
  LET tasks == loadTasksFromStorage(saveTasksToStorage(initialState.tasks))
  IN [storage |-> saveTasksToStorage(initialState.tasks),
      queue |-> <<SaveTimer(initialState.tasks)>>
                \o (IF Len(tasks) > 0 THEN <<LoadTasksUpdate(tasks)>> ELSE <<>>)]

\* the effects of the first commit, children first: the Calendar's save
\* effect sets its timer for the empty list, then useLocalStorage's load
\* effect reads the entry and queues LOAD_TASKS for a non-empty list, then
\* its save effect writes the empty list of the first render
mountEffects(stored) ==
  LET tasks == loadTasksFromStorage(stored)
  IN [storage |-> saveTasksToStorage(initialState.tasks),
      queue |-> <<SaveTimer(initialState.tasks)>>
                \o (IF Len(tasks) > 0 THEN <<LoadTasksUpdate(tasks)>> ELSE <<>>)]

\* the page is loaded again: a new store, the timers of the old page are
\* gone, and the effects of the first commit run
PageLoad ==
  /\ state' = initialState
  /\ storage' = mountEffects(storage).storage
  /\ timers' = mountEffects(storage).queue
  /\ reported' = None
  /\ hist' = [hist EXCEPT !.atMount = Some(storage)]
  /\ SaveFrame

\* the render that applies the queued LOAD_TASKS: the Calendar's effect
\* sets a timer for the loaded list, useLocalStorage's effect saves it
LoadTasksRender ==
  \E i \in DOMAIN timers :
    LET loaded == taskReducer(state, [type |-> "LOAD_TASKS",
                                      tasks |-> timers[i].tasks])
    IN /\ timers[i].kind = "LOAD_TASKS"
       /\ state' = loaded
       /\ timers' = Append([k \in 1..(Len(timers) - 1) |->
                               IF k < i THEN timers[k] ELSE timers[k + 1]],
                           SaveTimer(loaded.tasks))
       /\ storage' = saveTasksToStorage(loaded.tasks)
       /\ reported' = None
       /\ UNCHANGED hist /\ SaveFrame

SaveNext ==
  \/ \E shape \in SaveShapes : SaveAdd(MakeTask(hist.nextId, shape))
  \/ \E id \in 1..MaxStoreIds, shape \in SaveShapes :
       SaveUpdate(MakeTask(id, shape))
  \/ \E taskId \in 1..MaxStoreIds : SaveDelete(taskId)
  \/ DeferredSave
  \/ PageLoad
  \/ LoadTasksRender

SaveSpec == SaveInit /\ [][SaveNext]_vars

\* ------------------------------------------------------ the month shown
\* the months of the year 2026; its first day is a Thursday, and day 0 is
\* the Sunday before it
MonthLengths ==
  <<31, 28, 31, 30, 31, 30, 31, 31, 30, 31, 30, 31>>

YearStart ==
  4

RECURSIVE MonthStartDay(_)
\* the day number of the 1st of month m (0 is January)
MonthStartDay(m) ==
  IF m = 0 THEN YearStart ELSE MonthStartDay(m - 1) + MonthLengths[m]

\* getFullYear and getMonth of a local calendar day, as months since
\* January; the days before the year are in month -1, those after in 12
MonthIndex(d) ==
  IF d < YearStart THEN 0 - 1
  ELSE IF d >= MonthStartDay(Len(MonthLengths)) THEN Len(MonthLengths)
  ELSE CHOOSE m \in 0..(Len(MonthLengths) - 1) :
         MonthStartDay(m) <= d /\ d < MonthStartDay(m + 1)

\* date-fns startOfMonth: local midnight of the 1st
startOfMonth(t) ==
  LocalMidnight(MonthStartDay(MonthIndex(formatDate(t))))

\* date-fns endOfMonth: the last instant of the month's last day
endOfMonth(t) ==
  LocalMidnight(MonthStartDay(MonthIndex(formatDate(t)) + 1)) - 1

endOfWeekFromMonday(t) ==
  LocalMidnight(formatDate(t) + ((DaysPerWeek - getDay(formatDate(t))) % DaysPerWeek) + 1) - 1

\* date-fns endOfWeek, weeks starting on Sunday: the last instant of the
\* Saturday of the week
endOfWeek(t) ==
  LocalMidnight(formatDate(t) + (DaysPerWeek - 1 - getDay(formatDate(t))) + 1) - 1

\* date-fns eachDayOfInterval: the local midnights of the days start..end
eachDayOfInterval(start, end) ==
  [i \in 1..(formatDate(end) - formatDate(start) + 1) |->
     LocalMidnight(formatDate(start) + i - 1)]

isSameMonth(a, b) ==
  MonthIndex(formatDate(a)) = MonthIndex(formatDate(b))

\* dateUtils.getMonthDates in full
monthCells(date) ==
  LET monthStart == startOfMonth(date)
      monthEnd == endOfMonth(date)
      calendarStart == startOfWeek(monthStart)
      calendarEnd == endOfWeek(monthEnd)
      days == eachDayOfInterval(calendarStart, calendarEnd)
  IN [i \in 1..Len(days) |->
       [date |-> days[i],
        isCurrentMonth |-> isSameMonth(days[i], date),
        isToday |-> isSameDay(days[i], clock)]]

\* date-fns addMonths: the same day of the month amount months on, or the
\* last day of that month when it is shorter, at the same time of day
addMonths(t, amount) ==
  LET d == formatDate(t)
      m == MonthIndex(d) + amount
      dayOfMonth == d - MonthStartDay(MonthIndex(d))
      target == MonthStartDay(m) + Min(dayOfMonth, MonthLengths[m + 1] - 1)
  IN LocalMidnight(target) + (t - LocalMidnight(d))

\* readings of the clock at the mount: the instants of the year
MonthClockInputs ==
  {ParseDate(d) + k : d \in (YearStart + 1)..(MonthStartDay(Len(MonthLengths)) - 1),
                      k \in 0..(TicksPerDay - 1)}

MonthInit ==
  /\ tz \in TimeZones
  /\ clock \in MonthClockInputs
  /\ cal = [CalInit EXCEPT !.currentDate = clock]
  /\ state = initialState
  /\ storage = saveTasksToStorage(<<>>)
  /\ reported = None
  /\ bar = None
  /\ attr = None
  /\ timers = {}
  /\ mouse = MouseIsUp
  /\ dnd = DndIdle
  /\ hist = [nextId |-> 1, tasksAtDown |-> <<>>, lastClientX |-> None,
             up |-> None, atMount |-> None]

\* Calendar.navigateMonth
MonthShown(direction) ==
  /\ MonthIndex(formatDate(cal.currentDate)) + (IF direction = "prev" THEN 0 - 1 ELSE 1)
       \in 0..(Len(MonthLengths) - 1)
  /\ cal' = [cal EXCEPT !.currentDate =
               IF direction = "prev" THEN addMonths(@, 0 - 1) ELSE addMonths(@, 1)]
  /\ UNCHANGED <<tz, clock, state, storage, reported, bar, attr, timers, mouse,
                 dnd, hist>>

MonthNext ==
  \E direction \in {"prev", "next"} : MonthShown(direction)

MonthSpec == MonthInit /\ [][MonthNext]_vars

\* ------------------------------------------------- a start and an end
\* the days a start or an end can be on: the days around the clock's day,
\* and the last day of each time frame counted from it with the day after
DateDayInputs ==
  (0..4) \cup {10, 11, 17, 18, 24, 25}

\* the instants a start or an end can be: any time of these days
DateInputs ==
  {ParseDate(d) + k : d \in DateDayInputs, k \in 0..(TicksPerDay - 1)}

\* a task of these dates
DatedTask(startDate, endDate) ==
  [id |-> 1, title |-> <<"A">>, category |-> "Review",
   startDate |-> startDate, endDate |-> endDate, createdAt |-> clock]

DateInit ==
  /\ tz \in TimeZones
  /\ clock \in StoreClockInputs
  /\ state = [initialState EXCEPT
                !.tasks = <<DatedTask(LocalMidnight(0), LocalMidnight(0))>>]
  /\ storage = None
  /\ reported = None
  /\ cal = CalInit
  /\ bar = None
  /\ attr = None
  /\ timers = {}
  /\ mouse = MouseIsUp
  /\ dnd = DndIdle
  /\ hist = [nextId |-> 2, tasksAtDown |-> <<>>, lastClientX |-> None,
             up |-> None, atMount |-> None]

\* the task is given a start and an end
DatesChange(startDate, endDate) ==
  /\ state' = dispatch(state, [type |-> "UPDATE_TASK",
                               task |-> DatedTask(startDate, endDate)]).state
  /\ UNCHANGED <<tz, clock, storage, reported, cal, bar, attr, timers, mouse,
                 dnd, hist>>

DateNext ==
  \E startDate \in DateInputs, endDate \in DateInputs :
    DatesChange(startDate, endDate)

DateSpec == DateInit /\ [][DateNext]_vars

\* ------------------------------------------------------------ properties
TaskIn(tasks, id) ==
  CHOOSE t \in Range(tasks) : t.id = id

\* the step is a release of the button
Released ==
  mouse.on # "up" /\ mouse'.on = "up"

\* the step is handleDragEnd committing a move: it schedules the 0 ms callback
MoveCommitted ==
  Released /\ dnd.phase = "active" /\ Timer("dragEndClear") \in timers'

\* the cell a committed move resolved: the tracked drop target's, else over's
ResolvedTargetDay ==
  IF cal.currentDropTarget # None THEN Val(cal.currentDropTarget) \div TicksPerDay
  ELSE Val(Val(hist'.up).over)

\* C1: every task the store holds has startDate <= endDate, after any
\* sequence of creations, move commits, resize moves, edits and deletes
C1_StartNotAfterEnd ==
  \A t \in Range(state.tasks) : t.startDate <= t.endDate

\* a task of several days just after a move was committed
C1_Witness ==
  /\ cal.justFinishedDrag
  /\ \E t \in Range(state.tasks) : t.startDate < t.endDate

\* C2: at most one of selecting, moving and resizing is active in any state
C2_OneGestureAtATime ==
  Cardinality({g \in {"selecting", "moving", "resizing"} :
     \/ g = "selecting" /\ cal.isSelecting
     \/ g = "moving" /\ (cal.isDragging \/ state.draggedTask # None)
     \/ g = "resizing" /\ bar # None}) <= 1

\* C3: from the press on a resize handle to the release, no step enters the
\* moving state or starts a selection, the PointerSensor stays idle, and the
\* task list changes in nothing but the dates of the task being resized
C3_ResizeNeverMovesOrSelects ==
  [][(mouse.on = "handle" \/ mouse'.on = "handle") =>
       /\ cal'.isDragging => cal.isDragging
       /\ state'.draggedTask # None => state.draggedTask # None
       /\ cal'.isSelecting => cal.isSelecting
       /\ dnd'.phase = "idle"
       /\ Len(state'.tasks) = Len(state.tasks)
       /\ \A i \in 1..Len(state.tasks) :
            /\ state'.tasks[i] = [state.tasks[i] EXCEPT
                                    !.startDate = state'.tasks[i].startDate,
                                    !.endDate = state'.tasks[i].endDate]
            /\ state'.tasks[i] # state.tasks[i]
                 => mouse.on = "handle" /\ state.tasks[i].id = mouse.task]_vars

\* a resize in progress that has changed the task, outside any move or
\* selection
C3_Witness ==
  /\ mouse.on = "handle" /\ bar # None
  /\ ~cal.isDragging /\ state.draggedTask = None /\ ~cal.isSelecting
  /\ TaskOf(World, mouse.task).endDate # Val(bar).resizeStartDates.endDate

\* C4: a move commit puts the task's first day on the resolved target cell
\* and its last day (inclusive day count - 1) days later, and keeps
\* endDate - startDate
C4_MovePreservesDuration ==
  [][MoveCommitted =>
       LET old == TaskOf(World, dnd.task)
           new == TaskIn(state'.tasks, dnd.task)
           days == Len(getDaysBetween(old.startDate, old.endDate))
       IN /\ formatDate(new.startDate) = ResolvedTargetDay
          /\ formatDate(new.endDate) = ResolvedTargetDay + days - 1
          /\ new.endDate - new.startDate = old.endDate - old.startDate]_vars

\* C5: whatever the pointer displacement, a step of a resizing TaskBar
\* leaves startDate <= the original endDate (start edge), endDate >= the
\* original startDate (end edge), and a task of at least one day
C5_ResizeClamp ==
  [][(bar # None /\ HasTask(World, Val(bar).taskId)) =>
       LET b == Val(bar)
           t == TaskIn(state'.tasks, b.taskId)
       IN /\ b.resizeDirection = "left" => t.startDate <= b.resizeStartDates.endDate
          /\ b.resizeDirection = "right" => t.endDate >= b.resizeStartDates.startDate
          /\ Len(getDaysBetween(t.startDate, t.endDate)) >= 1]_vars

\* a start-edge resize whose displacement passes the original end, with the
\* start held at the original end
C5_Witness ==
  /\ bar # None /\ hist.lastClientX # None
  /\ Val(bar).resizeDirection = "left"
  /\ Val(bar).resizeStartDates.startDate < Val(bar).resizeStartDates.endDate
  /\ ResizedStartUnclamped(World, Val(bar),
       RoundedDeltaDays(Val(hist.lastClientX) - Val(bar).resizeStartX, DayWidth))
     > Val(bar).resizeStartDates.endDate
  /\ TaskOf(World, Val(bar).taskId).startDate = Val(bar).resizeStartDates.endDate

\* C6: at the release that ends a resize the stored dates are the original
\* edge shifted by round((last pointerX - pointerX at the press) / dayWidth)
\* days and clamped, and the original opposite edge
C6_ResizeCommitsLastDelta ==
  [][(Released /\ mouse.on = "handle") =>
       LET orig == TaskIn(hist.tasksAtDown, mouse.task)
           b == [resizeStartDates |-> [startDate |-> orig.startDate,
                                       endDate |-> orig.endDate]]
           r == RoundedDeltaDays(Val(hist.lastClientX)
                                   - HandleX(World, mouse.day, mouse.direction),
                                 DayWidth)
           t == TaskIn(state'.tasks, mouse.task)
       IN IF mouse.direction = "left"
          THEN t.startDate = ResizedStart(World, b, r) /\ t.endDate = orig.endDate
          ELSE t.startDate = orig.startDate /\ t.endDate = ResizedEnd(World, b, r)]_vars

\* C7: between the press and the release of a move or a resize no step
\* changes the store's task list
C7_NoStoreChangeDuringGesture ==
  [][(mouse.on \in {"task", "handle"} /\ mouse'.on = mouse.on) =>
       state'.tasks = state.tasks]_vars

\* C8: a gesture abandoned by a release outside every cell, or by a
\* cancelled drag, leaves the task list as it was at the press
C8_AbandonRestoresTasks ==
  [][(\/ Released /\ Val(hist'.up).outside
      \/ dnd.phase = "active" /\ dnd'.phase = "idle" /\ ~Released) =>
       state'.tasks = hist.tasksAtDown]_vars

\* C9: a drag released with no droppable under the pointer changes no task
\* and clears isDragging, draggedTask and currentDropTarget
C9_MoveWithoutTarget ==
  [][(Released /\ dnd.phase = "active" /\ Val(hist'.up).over = None) =>
       /\ state'.tasks = state.tasks
       /\ ~cal'.isDragging
       /\ state'.draggedTask = None
       /\ cal'.currentDropTarget = None]_vars

\* a drag of a stored task has just been released outside every cell
C9_Witness ==
  /\ hist.up # None
  /\ Val(hist.up).dragging /\ Val(hist.up).over = None
  /\ state.tasks # <<>>
  /\ ~cal.isDragging /\ state.draggedTask = None /\ cal.currentDropTarget = None

\* C10: the release that ends a selection begun on an empty cell schedules
\* the opening of the creation form with (min, max) of anchor and current
C10_SelectionOpensForm ==
  [][(Released /\ mouse.on = "cell" /\ cal.isSelecting) =>
       \E t \in timers' :
         /\ t.kind = "selectionEnd" /\ t.show
         /\ t.dates = Some([startDate |-> Min(Val(cal.selectionStart),
                                              Val(cal.selectionEnd)),
                            endDate |-> Max(Val(cal.selectionStart),
                                            Val(cal.selectionEnd))])]_vars

\* C11: the release that ends a press on a task body (a click, or a move)
\* or on a resize handle never schedules the opening of the creation form
C11_OnlySelectionOpensForm ==
  [][(Released /\ mouse.on \in {"task", "handle"}) =>
       \A t \in timers' : t.kind = "selectionEnd" => ~t.show]_vars

\* the ids of a task list, in list order
Ids(tasks) ==
  [i \in 1..Len(tasks) |-> tasks[i].id]

\* C12: an update whose task has startDate > endDate is rejected with an
\* InvalidRange error and leaves the stored tasks as they were
C12_InvalidRangeRejected ==
  [][\A id \in Range(Ids(state.tasks)), shape \in InvertedShapes :
       StoreUpdate(MakeTask(id, shape)) =>
         /\ state'.tasks = state.tasks
         /\ reported' = Some("InvalidRange")]_vars

\* C13: an update or a delete that names an id the store does not hold hands
\* a NotFound failure back to its caller and leaves the task list as it was
C13_NotFoundReported ==
  \A id \in (1..(MaxStoreIds + 1)) \ Range(Ids(state.tasks)) :
    /\ \A shape \in TaskShapes :
         LET r == dispatch(state, [type |-> "UPDATE_TASK",
                                   task |-> MakeTask(id, shape)])
         IN r.state.tasks = state.tasks /\ r.returned = Some("NotFound")
    /\ LET r == dispatch(state, [type |-> "DELETE_TASK", taskId |-> id])
       IN r.state.tasks = state.tasks /\ r.returned = Some("NotFound")

\* the time-frame stage keeps the task t
MatchesTimeFrame(s, t) ==
  TimeFrameFiltered(s, <<t>>) = <<t>>

\* C14: the query returns exactly the stored tasks that pass every active
\* stage: the search (active when the search string is not blank after
\* trimming: title or category contains it, whatever the case), the category
\* set (active when not empty) and the time frame (active when selected);
\* with no stage active it returns every task
C14_QueryIsConjunction ==
  /\ getFilteredTasks(state) =
       SelectSeq(state.tasks, LAMBDA t :
         /\ \/ Trim(state.searchQuery) = <<>>
            \/ includes(toLowerCase(t.title), toLowerCase(state.searchQuery))
            \/ includes(toLowerCase(CategoryChars(t.category)),
                        toLowerCase(state.searchQuery))
         /\ \/ state.filters.categories = <<>>
            \/ t.category \in Range(state.filters.categories)
         /\ \/ state.filters.timeFrame = None
            \/ MatchesTimeFrame(state, t))
  /\ (Trim(state.searchQuery) = <<>> /\ state.filters.categories = <<>>
        /\ state.filters.timeFrame = None)
       => getFilteredTasks(state) = state.tasks

\* two tasks stored and all three stages active: one task passes them all,
\* the other fails the category stage alone
C14_Witness ==
  /\ Len(state.tasks) = 2
  /\ Trim(state.searchQuery) # <<>>
  /\ state.filters.categories # <<>>
  /\ state.filters.timeFrame # None
  /\ Len(getFilteredTasks(state)) = 1
  /\ \E t \in Range(state.tasks) :
       /\ t.category \notin Range(state.filters.categories)
       /\ includes(toLowerCase(t.title), toLowerCase(state.searchQuery))
       /\ MatchesTimeFrame(state, t)

\* C15: with a time frame of N days selected, the time-frame stage keeps a
\* task exactly when [startDate, endDate] overlaps [now, now + N days], both
\* bounds included
C15_TimeFrameIsOverlap ==
  state.filters.timeFrame # None =>
    \A t \in Range(state.tasks) :
      (t.startDate # InvalidDate /\ t.startDate <= t.endDate) =>
        (MatchesTimeFrame(state, t) <=>
           /\ t.startDate <= addDays(clock, FrameDays(Val(state.filters.timeFrame)))
           /\ t.endDate >= clock)

\* a is b with some elements left out
RECURSIVE IsSubsequence(_, _)
IsSubsequence(a, b) ==
  IF a = <<>> THEN TRUE
  ELSE IF b = <<>> THEN FALSE
  ELSE IF Head(a) = Head(b) THEN IsSubsequence(Tail(a), Tail(b))
  ELSE IsSubsequence(a, Tail(b))

\* C16: the store keeps insertion order: an add appends, an update keeps
\* every task's position, a delete keeps the order of the others, and the
\* query's result is the stored list with tasks left out
C16_InsertionOrder ==
  [][state'.tasks # state.tasks =>
     /\ \A shape \in TaskShapes :
          StoreAdd(MakeTask(hist.nextId, shape)) =>
            state'.tasks = Append(state.tasks, MakeTask(hist.nextId, shape))
     /\ \A id \in 1..(MaxStoreIds + 1), shape \in TaskShapes \cup InvertedShapes :
          StoreUpdate(MakeTask(id, shape)) =>
            /\ Ids(state'.tasks) = Ids(state.tasks)
            /\ \A i \in 1..Len(state.tasks) :
                 state'.tasks[i] = IF state.tasks[i].id = id
                                   THEN MakeTask(id, shape) ELSE state.tasks[i]
     /\ \A taskId \in 1..(MaxStoreIds + 1) :
          StoreDelete(taskId) =>
            state'.tasks = SelectSeq(state.tasks, LAMBDA t : t.id # taskId)
     /\ IsSubsequence(getFilteredTasks(state), state.tasks)']_vars

\* the second task added sits behind the first, the first was deleted and
\* the task left is what the query returns under an active search
C16_Witness ==
  /\ hist.nextId = 3
  /\ Ids(state.tasks) = <<2>>
  /\ Trim(state.searchQuery) # <<>>
  /\ getFilteredTasks(state) = state.tasks

\* C17: a task the query returns has a segment in the visible cell of day d
\* exactly when d lies between the days of its startDate and endDate, so as
\* many segments as days of its range are visible; the segment of d is
\* flagged first-day exactly when d is the day of startDate and last-day
\* exactly when d is the day of endDate
C17_SegmentsMatchDays ==
  \A t \in Range(getFilteredTasks(state)) :
    /\ \A d \in VisibleDays(World) :
         /\ <<d, t.id>> \in Bars(World)
              <=> (formatDate(t.startDate) <= d /\ d <= formatDate(t.endDate))
         /\ isFirstDay(t, d) <=> d = formatDate(t.startDate)
         /\ isLastDay(t, d) <=> d = formatDate(t.endDate)
    /\ Cardinality({d \in VisibleDays(World) : <<d, t.id>> \in Bars(World)})
         = Cardinality(VisibleDays(World)
                       \cap (formatDate(t.startDate)..formatDate(t.endDate)))

\* a task moved to instants that are no local midnight spans three days, of
\* which the view shows the last two: a middle segment and the last-day one
C17_Witness ==
  \E t \in Range(getFilteredTasks(state)) :
    /\ formatDate(t.endDate) = formatDate(t.startDate) + 2
    /\ t.startDate # LocalMidnight(formatDate(t.startDate))
    /\ \A d \in VisibleDays(World) : <<d, t.id>> \in Bars(World)
    /\ \E d \in VisibleDays(World) : isLastDay(t, d) /\ ~isFirstDay(t, d)
    /\ \A d \in VisibleDays(World) : ~isFirstDay(t, d)

\* every date of every task is a valid Date
ValidDates(tasks) ==
  \A t \in Range(tasks) :
    InvalidDate \notin {t.startDate, t.endDate, t.createdAt}

C19_CorruptEntryStartsEmpty ==
  [][\A entry \in ForeignEntries :
       StartOver(entry) =>
         /\ loadTasksFromStorage(entry) = <<>>
         /\ state'.tasks = <<>>]_vars

\* the filter states of the sidebar and the search box
FilterStates ==
  [categories : {<<>>} \cup {<<c>> : c \in CategoryFilterInputs},
   timeFrame : {None} \cup {Some(f) : f \in TimeFrames},
   searchQuery : QueryInputs]

\* the task of this id is in no result of the query and not in what load()
\* returns from the entry
Gone(id) ==
  /\ \A f \in FilterStates :
       id \notin Range(Ids(getFilteredTasks(
         [state EXCEPT !.filters = [categories |-> f.categories,
                                    timeFrame |-> f.timeFrame],
                       !.searchQuery = f.searchQuery])))
  /\ id \notin Range(Ids(loadTasksFromStorage(storage)))

C22_BlankTitleBlocked ==
  /\ [](\A t \in Range(state.tasks) : t.title # <<>> /\ Trim(t.title) = t.title)
  /\ [][\A title \in TitleInputs, category \in CategoryInputs :
         Trim(title) = <<>> =>
           /\ CreateSubmit(title, category, clock) =>
                (state'.tasks = state.tasks /\ CreateModalShown')
           /\ EditSubmit(title, category) =>
                (state'.tasks = state.tasks /\ EditModalShown')]_vars

\* a task created from a title with white space around it is stored under
\* the trimmed title, and the edit form is open on it
C22_Witness ==
  /\ EditModalShown
  /\ \E t \in Range(state.tasks) :
       /\ t.title = <<"a">>
       /\ t.category = "Review"
       /\ Val(cal.editingTask).id = t.id

\* C23: the cells of the month of the date shown are consecutive days in
\* ascending order, a multiple of 7 of them, from the Sunday on or before
\* the 1st to the Saturday on or after the month's last day, each flagged
\* isCurrentMonth exactly when it is a day of that month
C23_MonthGrid ==
  LET cells == monthCells(cal.currentDate)
      m == MonthIndex(formatDate(cal.currentDate))
      first == MonthStartDay(m)
      last == MonthStartDay(m + 1) - 1
  IN /\ Len(cells) > 0
     /\ Len(cells) % DaysPerWeek = 0
     /\ \A i \in 1..Len(cells) :
          /\ cells[i].date = LocalMidnight(formatDate(cells[1].date) + i - 1)
          /\ cells[i].isCurrentMonth
               <=> (first <= formatDate(cells[i].date) /\ formatDate(cells[i].date) <= last)
     /\ getDay(formatDate(cells[1].date)) = 0
     /\ formatDate(cells[1].date) \in (first - DaysPerWeek + 1)..first
     /\ getDay(formatDate(cells[Len(cells)].date)) = DaysPerWeek - 1
     /\ formatDate(cells[Len(cells)].date) \in last..(last + DaysPerWeek - 1)

\* the month of 28 days that starts on a Sunday is shown after a step from
\* the 31st of the month before: four weeks, every cell of the month
C23_Witness ==
  /\ MonthIndex(formatDate(cal.currentDate)) = 1
  /\ formatDate(cal.currentDate) = MonthStartDay(2) - 1
  /\ formatDate(clock) = MonthStartDay(1) - 1
  /\ Len(monthCells(cal.currentDate)) = 4 * DaysPerWeek
  /\ \A i \in 1..Len(monthCells(cal.currentDate)) :
       monthCells(cal.currentDate)[i].isCurrentMonth

C25_TimeFrameToggles ==
  /\ state.filters.timeFrame \in {None} \cup {Some(f) : f \in TimeFrames}
  /\ \A f \in TimeFrames :
       timeFrameRadioClick(state, f).state.filters.timeFrame
         = IF state.filters.timeFrame = Some(f) THEN None ELSE Some(f)

\* C26: a change of the category boxes leaves the time frame, a change of
\* the time frame leaves the categories, and both leave the search text and
\* the tasks as they are
C26_FiltersMerge ==
  [][/\ \A category \in CategoryFilterInputs :
          CategoryToggle(category) =>
            /\ state'.filters.timeFrame = state.filters.timeFrame
            /\ state'.searchQuery = state.searchQuery
            /\ state'.tasks = state.tasks
     /\ ((\E timeFrame \in TimeFrames : TimeFrameChange(timeFrame)) \/ TimeFrameClear) =>
            /\ state'.filters.categories = state.filters.categories
            /\ state'.searchQuery = state.searchQuery
            /\ state'.tasks = state.tasks]_vars

\* a category, a time frame and a search text are set over a stored task
C26_Witness ==
  /\ state.filters.categories # <<>>
  /\ state.filters.timeFrame # None
  /\ state.searchQuery # <<>>
  /\ state.tasks # <<>>

\* C27: the 50 ms callback of a release that ended a selection whose anchor
\* and current date are one day does not open the creation form
C27_SingleDayOpensNoForm ==
  [][\A t \in timers :
       (/\ t.kind = "selectionEnd" /\ t.show
        /\ isSameDay(Val(t.dates).startDate, Val(t.dates).endDate)
        /\ ~cal.showModal
        /\ Ready /\ Becomes(selectionEndTimeout(World, t)) /\ HistStep)
       => ~cal'.showModal]_vars

\* C28: while a TaskBar resizes, a pointer move whose rounded delta is the
\* one the move before it applied calls no onTaskResize
C28_UpdateOnlyOnDayChange ==
  (bar # None /\ mouse.on = "handle" /\ hist.lastClientX # None) =>
    \A clientX \in PointerXs :
      LET last == RoundedDeltaDays(Val(hist.lastClientX) - Val(bar).resizeStartX, DayWidth)
          new == RoundedDeltaDays(clientX - Val(bar).resizeStartX, DayWidth)
      IN (last # 0 /\ new = last) => ~CallsOnTaskResize(World, clientX)

\* C29: from the press on a handle to the release a TaskBar instance of the
\* pressed task is resizing, so that every pointer move is handled
C29_ResizeStaysActive ==
  mouse.on = "handle" =>
    /\ bar # None
    /\ Val(bar).taskId = mouse.task
    /\ \A clientX \in PointerXs :
         RoundedDeltaDays(clientX - Val(bar).resizeStartX, DayWidth) # 0
           => CallsOnTaskResize(World, clientX)

\* no gesture is under way and nothing of one is left
Idle ==
  /\ ~cal.isSelecting
  /\ ~cal.isDragging
  /\ state.draggedTask = None
  /\ bar = None
  /\ attr = None

\* C30: once the button is up, the drag is over and every callback that
\* was scheduled has run, the calendar is idle
C30_GestureReturnsToIdle ==
  (mouse.on = "up" /\ dnd.phase = "idle" /\ timers = {}) => Idle

\* the visible days whose cell centre is nearest to the pointer
NearestDays(p) ==
  {d \in VisibleDays(World) :
     \A e \in VisibleDays(World) : p.distance[d] <= p.distance[e]}

\* C31: a pointer move during a task move sets the drop target to the day of
\* the cell whose rectangle contains the pointer; with no such cell, to the
\* day of a cell whose centre is nearest when that is within the radius; and
\* otherwise leaves the drop target as it is
C31_DropTargetTracksPointer ==
  cal.isDragging =>
    \A p \in PointerInputs :
      LET target == handleMouseMove(World, p).cal.currentDropTarget
      IN IF p.inside # None
         THEN target # None /\ formatDate(Val(target)) = Val(p.inside)
         ELSE IF \E d \in VisibleDays(World) : p.distance[d] < DropRadius
         THEN target # None /\ formatDate(Val(target)) \in NearestDays(p)
         ELSE target = cal.currentDropTarget

\* C32: a move commit stores as the task's first day the day of the cell the
\* pointer is over at the release
C32_CommitUsesCellAtRelease ==
  [][MoveCommitted =>
       formatDate(TaskIn(state'.tasks, dnd.task).startDate)
         = Val(Val(hist'.up).over)]_vars

\* C33: when the page was mounted with a stored list that is not empty and
\* the start-up has come to rest (no timer and no update pending, nothing
\* dispatched since the mount), the stored entry is the one from before the
\* mount and the store holds the tasks of that entry
C33_StartupKeepsStoredTasks ==
  (/\ hist.atMount # None
   /\ Len(loadTasksFromStorage(Val(hist.atMount))) > 0
   /\ timers = <<>>)
    => /\ storage = Val(hist.atMount)
       /\ state.tasks = loadTasksFromStorage(Val(hist.atMount))

\* the start-up has come to rest with the two tasks that were stored
C33_Witness ==
  /\ hist.atMount # None
  /\ timers = <<>>
  /\ Len(loadTasksFromStorage(Val(hist.atMount))) = 2
  /\ Len(state.tasks) = 2

\* the tasks after a handler ran are those before it, in the same order,
\* but for the fields named of the task id
OnlyChanged(old, new, id, fields) ==
  /\ Len(new) = Len(old)
  /\ \A i \in DOMAIN old :
       /\ new[i].id = old[i].id
       /\ new[i].createdAt = old[i].createdAt
       /\ old[i].id # id => new[i] = old[i]
       /\ \A f \in {"title", "category", "startDate", "endDate"} \ fields :
            new[i][f] = old[i][f]

\* the days a resize or a move is given, and what the edit form is given
ResizeDayInputs == {LocalMidnight(d) : d \in 0..2}
EditTitleInputs == {<<" ", "c">>, <<"A">>}
EditCategoryInputs == {"Review", "To Do", "Completed"}

\* the world in which dnd-kit has started the drag of task id
Dragging(id) ==
  handleDragStart([World EXCEPT !.dnd = [phase |-> "active", task |-> id]], id)

\* C34: a resize (handleTaskResize) and a move commit (handleDragEnd) of a
\* stored task change nothing but the startDate and endDate of that task,
\* and a submit of the edit form opened for it nothing but its title and
\* category; id and createdAt of every task, and every other task, are kept
C34_MutationKeepsIdentity ==
  ValidDates(state.tasks) =>
    \A t \in Range(state.tasks) :
      /\ \A newStartDate \in ResizeDayInputs, newEndDate \in ResizeDayInputs :
           OnlyChanged(state.tasks,
             handleTaskResize(World, t.id, newStartDate, newEndDate).state.tasks,
             t.id, {"startDate", "endDate"})
      /\ \A over \in {None} \cup {Some(d) : d \in VisibleDays(World)} :
           OnlyChanged(state.tasks,
             handleDragEnd(Dragging(t.id), over).state.tasks,
             t.id, {"startDate", "endDate"})
      /\ \A title \in EditTitleInputs, category \in EditCategoryInputs :
           OnlyChanged(state.tasks,
             TaskEditModalSubmit(handleTaskEdit(World, t), title, category).state.tasks,
             t.id, {"title", "category"})

\* two stored tasks that differ in every field; a resize, a move and an
\* edit of the second each change it
C34_Witness ==
  /\ Len(state.tasks) = 2
  /\ ValidDates(state.tasks)
  /\ state.tasks[1].title # state.tasks[2].title
  /\ state.tasks[1].category # state.tasks[2].category
  /\ state.tasks[1].startDate # state.tasks[2].startDate
  /\ \E newStartDate \in ResizeDayInputs, newEndDate \in ResizeDayInputs :
       handleTaskResize(World, 2, newStartDate, newEndDate).state.tasks[2]
         # state.tasks[2]
  /\ \E d \in VisibleDays(World) :
       handleDragEnd(Dragging(2), Some(d)).state.tasks[2] # state.tasks[2]
  /\ \E title \in EditTitleInputs, category \in EditCategoryInputs :
       LET new == TaskEditModalSubmit(handleTaskEdit(World, state.tasks[2]),
                                      title, category).state.tasks[2]
       IN new.title # state.tasks[2].title /\ new.category # state.tasks[2].category

\* C35: the reducer returns the same task list for SET_FILTERS,
\* SET_SEARCH_QUERY, SET_DRAGGED_TASK, START_CREATION and CANCEL_CREATION,
\* and so do the filter and search handlers, month navigation and
\* rendering; a step that toggles a category, chooses or clears a time
\* frame or changes the search leaves the stored tasks as they were
C35_OnlyTaskActionsChangeTasks ==
  /\ [](/\ \A category \in Categories, timeFrame \in TimeFrames :
             /\ handleCategoryChange(state, category).state.tasks = state.tasks
             /\ handleTimeFrameChange(state, timeFrame).state.tasks = state.tasks
             /\ timeFrameRadioClick(state, timeFrame).state.tasks = state.tasks
        /\ clearTimeFilter(state).state.tasks = state.tasks
        /\ \A query \in QueryInputs :
             handleSearchChange(state, query).state.tasks = state.tasks
        /\ \A task \in {None} \cup {Some(t) : t \in Range(state.tasks)} :
             taskReducer(state, [type |-> "SET_DRAGGED_TASK", task |-> task]).tasks
               = state.tasks
        /\ \A startDate \in ResizeDayInputs, endDate \in ResizeDayInputs :
             taskReducer(state, [type |-> "START_CREATION", startDate |-> startDate,
                                 endDate |-> endDate]).tasks = state.tasks
        /\ taskReducer(state, [type |-> "CANCEL_CREATION"]).tasks = state.tasks
        /\ \A direction \in {"prev", "next"} :
             navigateMonth(World, direction).state.tasks = state.tasks
        /\ Render(World, World).state.tasks = state.tasks)
  /\ [][(\/ \E category \in CategoryFilterInputs : CategoryToggle(category)
         \/ \E timeFrame \in TimeFrames : TimeFrameChange(timeFrame)
         \/ TimeFrameClear
         \/ \E query \in QueryInputs : SearchChange(query))
          => state'.tasks = state.tasks]_vars

\* two tasks are stored while a category filter, a time frame and a search
\* are set
C35_Witness ==
  /\ Len(state.tasks) = 2
  /\ state.filters.categories # <<>>
  /\ state.filters.timeFrame # None
  /\ state.searchQuery = <<"R", "e">>
  /\ SearchFiltered(state, state.tasks) # state.tasks

\* C36: when the pointer enters a cell, the selection's current date changes
\* only if the button is down; the dates a pending 50 ms callback will hand
\* to the creation form, and those the form was handed, do not change; and
\* nothing at all changes while no selection is active
C36_CellEnterOnlyWhilePointerDown ==
  (Ready /\ ~ModalOpen) =>
    \A d \in VisibleDays(World) :
      LET w == handleMouseEnter(World, d)
      IN /\ mouse.on = "up" => w.cal.selectionEnd = cal.selectionEnd
         /\ w.timers = timers
         /\ w.cal.modalDates = cal.modalDates
         /\ ~cal.isSelecting => w = World

\* C37: a submit of the creation form with a title that is not blank appends
\* exactly one task: its dates are those the form was opened with, which are
\* the ordered ends of the selection at the release, its title is the
\* trimmed input, its category the chosen one, its id is new and its
\* createdAt is the clock's reading; closing the form adds no task
C37_CreateAddsOneTask ==
  [][/\ \A title \in TitleInputs, category \in CategoryInputs :
          (CreateSubmit(title, category, clock) /\ Trim(title) # <<>>) =>
            /\ hist.nextId \notin Range(Ids(state.tasks))
            /\ state'.tasks = Append(state.tasks,
                 [id |-> hist.nextId,
                  title |-> Trim(title),
                  startDate |-> Val(cal.modalDates).startDate,
                  endDate |-> Val(cal.modalDates).endDate,
                  category |-> category,
                  createdAt |-> clock])
     /\ ModalClose => state'.tasks = state.tasks
     /\ (~CreateModalShown /\ CreateModalShown') =>
          \E t \in timers :
            t.kind = "selectionEnd" /\ t.show /\ cal'.modalDates = t.dates
     /\ \A t \in timers' \ timers :
          (t.kind = "selectionEnd" /\ t.show) =>
            /\ cal.selectionStart # None /\ cal.selectionEnd # None
            /\ Val(t.dates).startDate
                 = Min(Val(cal.selectionStart), Val(cal.selectionEnd))
            /\ Val(t.dates).endDate
                 = Max(Val(cal.selectionStart), Val(cal.selectionEnd))]_vars

\* the form has closed after a submit that stored a task of two days, with
\* the trimmed title and the chosen category
C37_Witness ==
  /\ Len(state.tasks) = 1
  /\ ~ModalOpen
  /\ formatDate(state.tasks[1].startDate) + 1 = formatDate(state.tasks[1].endDate)
  /\ state.tasks[1].title = <<"a">>
  /\ state.tasks[1].category = "Review"
  /\ hist.nextId = 2

\* C38: for a task whose start is not after its end, isTaskInTimeFrame is
\* true exactly when the task's days and the days from today to N days
\* after today (N = 7, 14, 21) have a day in common, that is when the start's
\* day is not after today + N and the end's day is not before today
C38_TimeFrameIsOverlap ==
  \A t \in Range(state.tasks) :
    t.startDate <= t.endDate =>
      \A timeFrame \in TimeFrames :
        LET today == formatDate(clock)
            taskDays == formatDate(t.startDate)..formatDate(t.endDate)
            frame == today..(today + FrameDays(timeFrame))
        IN /\ isTaskInTimeFrame(t.startDate, t.endDate, timeFrame, clock)
                <=> taskDays \cap frame # {}
           /\ isTaskInTimeFrame(t.startDate, t.endDate, timeFrame, clock)
                <=> /\ formatDate(t.startDate) <= today + FrameDays(timeFrame)
                    /\ formatDate(t.endDate) >= today

\* a task that starts before today and ends after the last day of the
\* two-week frame: its start and its end are both outside the frame
C38_Witness ==
  \E t \in Range(state.tasks) :
    /\ formatDate(t.startDate) < formatDate(clock)
    /\ formatDate(t.endDate) > formatDate(clock) + FrameDays("twoWeeks")
    /\ formatDate(t.endDate) < formatDate(clock) + FrameDays("threeWeeks")
    /\ t.startDate # LocalMidnight(formatDate(t.startDate))

\* C39: whatever the pointer position, a move of a resizing TaskBar stores
\* for the left handle a startDate not before the first visible cell, for
\* the right handle an endDate not after two months past the first visible
\* cell, and in both cases startDate <= endDate
C39_ResizeStaysInCalendarBounds ==
  (bar # None /\ HasTask(World, Val(bar).taskId)) =>
    \A clientX \in PointerXs :
      CallsOnTaskResize(World, clientX) =>
        LET t == TaskOf(handleResizeMove(World, clientX), Val(bar).taskId)
        IN /\ Val(bar).resizeDirection = "left"
                => t.startDate >= calendarStartDate(World)
           /\ Val(bar).resizeDirection = "right"
                => t.endDate <= TwoMonthsAhead(calendarStartDate(World))
           /\ t.startDate <= t.endDate

\* a right-handle resize whose displacement would pass two months after the
\* first visible cell, the stored end being held there
C39_Witness ==
  /\ bar # None /\ hist.lastClientX # None
  /\ Val(bar).resizeDirection = "right"
  /\ HasTask(World, Val(bar).taskId)
  /\ ResizedEndWithoutMaximum(World, Val(bar),
       RoundedDeltaDays(Val(hist.lastClientX) - Val(bar).resizeStartX, DayWidth))
     > TwoMonthsAhead(calendarStartDate(World))
  /\ TaskOf(World, Val(bar).taskId).endDate = TwoMonthsAhead(calendarStartDate(World))

==============================================================================
